---------------------------- MODULE Spec2Model ----------------------------
(***************************************************************************)
(* State-machine model of the frameworke client runtime and dev tooling.   *)
(* Every subsystem keeps its state in one record variable whose fields     *)
(* carry the names of the source's variables; each subsystem has its own   *)
(* specification, in which the other subsystems stay idle.                 *)
(***************************************************************************)
EXTENDS Integers, Sequences, FiniteSets, TLC

VARIABLES view, router, map, rebuild, spring, store, scope, nav, cell, dialog, bundle, service, collector, label, motion, outlet

vars == <<view, router, map, rebuild, spring, store, scope, nav, cell, dialog, bundle, service, collector, label, motion, outlet>>

\* The value of a subsystem's variable in the specifications of the others.
Off == [off |-> TRUE]

(***************************************************************************)
(* Bounds                                                                  *)
(***************************************************************************)
\* Longest list of callbacks of one kind a setup function registers.
MaxCallbacks == 2
\* Most transition promises unresolved at one time.
MaxPromises == 2
\* Most layers the router renders in one run.
MaxRenders == 6
\* Keys the items of the keyed list draw from: 1..MaxKeys.
MaxKeys == 2
\* Most lists the source of the keyed list emits after the initial one.
MaxUpdates == 2
\* Most calls of the rebuild trigger in one run.
MaxCalls == 6
\* Most animations one spring starts in one run.
MaxAnimations == 3
\* Most times one store runs its setup function in one run.
MaxSetups == 3

(***************************************************************************)
(* Generic helpers                                                         *)
(***************************************************************************)
SeqsUpTo(S, n) == UNION {[1..k -> S] : k \in 0..n}

RECURSIVE SelectIdx(_, _, _)
SelectIdx(s, kind, i) ==
    IF i > Len(s) THEN <<>>
    ELSE (IF s[i][1] = kind THEN <<s[i][2]>> ELSE <<>>) \o SelectIdx(s, kind, i + 1)

(***************************************************************************)
(* initView: a component made from a setup function                        *)
(* src/packages/client/lib/makers/initView.js                              *)
(***************************************************************************)
Parents == {"p1", "p2"}

\* The k callbacks a setup function registered through ctx.<kind>(callback).
Registered(kind, k) == [i \in 1..k |-> <<kind, i>>]

\* afterConnectCallbacks after the setup function ran: ctx.afterConnect pushes
\* the user's callback, ctx.observe (component not yet connected) pushes a
\* callback that starts the observer.
AfterConnectLists ==
    {[i \in 1..Len(s) |-> <<s[i], i>>] : s \in SeqsUpTo({"afterConnect", "observe"}, MaxCallbacks)}

\* The kind of lifecycle hook whose callbacks call ctx.observe when they run
\* ("none": the setup function calls it in its body only).
HookObserves == {"none", "beforeConnect", "afterConnect", "afterDisconnect"}

\* Longest list of afterConnect callbacks a component collects in one run.
MaxObservers == 4

ViewInit ==
    \E nbc \in 0..MaxCallbacks, nbd \in 0..MaxCallbacks, nad \in 0..MaxCallbacks,
       ac \in AfterConnectLists,
       t \in {"none", "promise", "other"},
       el \in {"view", "dom", "null"},
       ho \in HookObserves :
        view = [ hookObserves              |-> ho,
                 first                     |-> <<>>,
                 beforeConnectCallbacks    |-> Registered("beforeConnect", nbc),
                 afterConnectCallbacks     |-> ac,
                 beforeDisconnectCallbacks |-> Registered("beforeDisconnect", nbd),
                 afterDisconnectCallbacks  |-> Registered("afterDisconnect", nad),
                 transitionOutCallback     |-> t,
                 element                   |-> el,
                 isConnected               |-> FALSE,
                 subscriptions             |-> <<>>,
                 parent                    |-> "none",
                 promises                  |-> 0,
                 last                      |-> [op |-> "init", wasConnected |-> FALSE,
                                                allowTransitionOut |-> FALSE, threw |-> FALSE,
                                                calls |-> <<>>, subscriptions |-> <<>>,
                                                parent |-> "none"] ]

\* Mutant: connect() forgets that the component was connected.
wasConnectedIgnored == FALSE

\* const wasConnected = component.isConnected (connect)
wasConnected == view.isConnected

\* ctx.observe called n times while the component is not connected: each
\* call pushes a callback that starts the observer on afterConnectCallbacks.
RECURSIVE Observe(_, _)
Observe(callbacks, n) ==
    IF n = 0 THEN callbacks
    ELSE Observe(Append(callbacks, <<"observe", Len(callbacks) + 1>>), n - 1)

\* The afterConnect callbacks after the callbacks of the given kind ran.
Observing(kind, callbacks) ==
    IF view.hookObserves = kind THEN Observe(view.afterConnectCallbacks, Len(callbacks))
    ELSE view.afterConnectCallbacks

\* The observers an afterConnect pass over callbacks starts, in order: the
\* pushed starters, and ctx.observe called by a hook of the now connected
\* component (written -i for the hook i).
RECURSIVE StartedObservers(_, _)
StartedObservers(callbacks, i) ==
    IF i > Len(callbacks) THEN <<>>
    ELSE (IF callbacks[i][1] = "observe" THEN <<callbacks[i][2]>>
          ELSE IF view.hookObserves = "afterConnect" THEN <<0 - callbacks[i][2]>>
          ELSE <<>>) \o StartedObservers(callbacks, i + 1)

\* element.connect(parent, after) / parent.insertBefore(element, ...)
Mounted(p) == IF view.element = "null" THEN view.parent ELSE p

\* element.disconnect() / element.parentNode.removeChild(element)
Unmounted == IF view.element = "null" THEN view.parent ELSE "none"

LastOp(op, allow, threw, calls) ==
    [op |-> op, wasConnected |-> view.isConnected, allowTransitionOut |-> allow,
     threw |-> threw, calls |-> calls, subscriptions |-> view.subscriptions,
     parent |-> view.parent]

connect(p) ==
    LET was == wasConnected
        afterConnectCallbacks == IF was THEN view.afterConnectCallbacks
                                 ELSE Observing("beforeConnect", view.beforeConnectCallbacks)
        subscriptions == IF was THEN view.subscriptions
                         ELSE view.subscriptions \o StartedObservers(afterConnectCallbacks, 1)
    IN
    /\ Len(afterConnectCallbacks) <= MaxObservers
    /\ view' = [view EXCEPT
        !.parent = Mounted(p),
        !.isConnected = TRUE,
        !.afterConnectCallbacks = afterConnectCallbacks,
        !.subscriptions = subscriptions,
        !.first = IF was \/ @ # <<>> THEN @ ELSE <<Len(subscriptions)>>,
        !.last = LastOp("connect", FALSE, FALSE,
                        IF was THEN <<>>
                        ELSE view.beforeConnectCallbacks \o afterConnectCallbacks)]

\* Mutant: the transition branch is never taken.
UsesTransitionNever(allowTransitionOut) == FALSE

\* if (allowTransitionOut && transitionOutCallback)
UsesTransition(allowTransitionOut) ==
    allowTransitionOut /\ view.transitionOutCallback # "none"

\* The body shared by the synchronous branch of disconnect and by the
\* promise.then callback: unmount, isConnected = false, afterDisconnect
\* callbacks, unsubscribe everything.
Teardown(op, allow, calls) ==
    LET afterConnectCallbacks == Observing("afterDisconnect", view.afterDisconnectCallbacks) IN
    /\ Len(afterConnectCallbacks) <= MaxObservers
    /\ view' = [view EXCEPT
        !.parent = Unmounted,
        !.isConnected = FALSE,
        !.afterConnectCallbacks = afterConnectCallbacks,
        !.subscriptions = <<>>,
        !.promises = IF op = "resolve" THEN @ - 1 ELSE @,
        !.last = LastOp(op, allow, FALSE, calls \o view.afterDisconnectCallbacks)]

disconnect(allowTransitionOut) ==
    IF ~view.isConnected
    THEN view' = [view EXCEPT !.last = LastOp("disconnect", allowTransitionOut, FALSE, <<>>)]
    ELSE IF UsesTransition(allowTransitionOut)
    THEN IF view.transitionOutCallback # "promise"
         THEN \* throw new TypeError("transitionOut callback must return a promise.")
              view' = [view EXCEPT
                  !.last = LastOp("disconnect", allowTransitionOut, TRUE, <<<<"transitionOut", 1>>>>)]
         ELSE /\ view.promises < MaxPromises
              /\ view' = [view EXCEPT
                  !.promises = @ + 1,
                  !.last = LastOp("disconnect", allowTransitionOut, FALSE,
                                  <<<<"transitionOut", 1>>>> \o view.beforeDisconnectCallbacks)]
    ELSE Teardown("disconnect", allowTransitionOut, view.beforeDisconnectCallbacks)

\* promise.then(() => { ... }): one pending transition promise resolves.
resolve ==
    /\ view.promises > 0
    /\ IF view.element = "dom" /\ view.parent = "none"
       THEN \* element.parentNode is null: the callback throws at removeChild
            view' = [view EXCEPT !.promises = @ - 1,
                                 !.last = LastOp("resolve", TRUE, TRUE, <<>>)]
       ELSE Teardown("resolve", TRUE, <<>>)

\* The other subsystems are idle in the view's specification.
ViewOnly == UNCHANGED <<router, map, rebuild, spring, store, scope, nav, cell, dialog, bundle, service, collector, label, motion, outlet>>

ViewStart == ViewInit /\ router = Off /\ map = Off /\ rebuild = Off /\ spring = Off /\ store = Off
    /\ scope = Off /\ nav = Off /\ cell = Off /\ dialog = Off /\ bundle = Off /\ service = Off
    /\ collector = Off /\ label = Off /\ motion = Off /\ outlet = Off

ViewNext ==
    \/ \E p \in Parents : connect(p) /\ ViewOnly
    \/ \E allowTransitionOut \in BOOLEAN : disconnect(allowTransitionOut) /\ ViewOnly
    \/ resolve /\ ViewOnly

SpecView == ViewStart /\ [][ViewNext]_vars

\* C1: connect() on a connected component runs no callback; a connect that
\* takes the component from disconnected to connected runs every beforeConnect
\* callback and then every afterConnect callback once, in registration order;
\* a disconnect without transition takes a connected component to
\* disconnected and runs every beforeDisconnect and then every
\* afterDisconnect callback once, in order; on a disconnected component it
\* runs nothing.
ViewHooksOnlyOnTransitions ==
    LET l == view.last IN
    /\ l.op = "connect" =>
          /\ view.isConnected
          /\ l.calls = IF l.wasConnected THEN <<>>
                       ELSE view.beforeConnectCallbacks \o view.afterConnectCallbacks
    /\ (l.op = "disconnect" /\ ~(l.allowTransitionOut /\ view.transitionOutCallback # "none")) =>
          /\ ~view.isConnected
          /\ l.calls = IF l.wasConnected
                       THEN view.beforeDisconnectCallbacks \o view.afterDisconnectCallbacks
                       ELSE <<>>

\* A connected component with callbacks of both connect kinds is connected
\* again under another parent.
ViewRepositioned ==
    /\ view.last.op = "connect"
    /\ view.last.wasConnected
    /\ view.element = "dom"
    /\ view.parent # view.last.parent
    /\ view.beforeConnectCallbacks # <<>>
    /\ view.afterConnectCallbacks # <<>>
    /\ view.transitionOutCallback = "none"

\* C2: disconnect({allowTransitionOut: true}) on a connected component whose
\* transitionOut callback returns a promise leaves isConnected, the mounted
\* node and the subscriptions as they were and runs no afterDisconnect
\* callback; the resolution of that promise on the still connected component
\* removes the node, sets isConnected to false, runs the afterDisconnect
\* callbacks and cancels the subscriptions; without the flag or without a
\* callback disconnect() does all of it before it returns.
ViewTransitionOutDefers ==
    LET l == view.last IN
    /\ (l.op = "disconnect" /\ l.wasConnected /\ l.allowTransitionOut
            /\ view.transitionOutCallback = "promise") =>
          /\ view.isConnected
          /\ view.parent = l.parent
          /\ view.subscriptions = l.subscriptions
          /\ l.calls = <<<<"transitionOut", 1>>>> \o view.beforeDisconnectCallbacks
          /\ view.promises > 0
    /\ (l.op = "resolve" /\ l.wasConnected) =>
          /\ ~view.isConnected
          /\ view.element # "null" => view.parent = "none"
          /\ view.subscriptions = <<>>
          /\ l.calls = view.afterDisconnectCallbacks
    /\ (l.op = "disconnect" /\ l.wasConnected
            /\ ~(l.allowTransitionOut /\ view.transitionOutCallback # "none")) =>
          /\ ~view.isConnected
          /\ view.element # "null" => view.parent = "none"
          /\ view.subscriptions = <<>>
          /\ l.calls = view.beforeDisconnectCallbacks \o view.afterDisconnectCallbacks

\* A transition promise has just resolved on a connected component that had
\* active subscriptions and afterDisconnect callbacks.
ViewTransitionResolved ==
    /\ view.last.op = "resolve"
    /\ view.last.wasConnected
    /\ view.last.subscriptions # <<>>
    /\ view.last.parent # "none"
    /\ view.afterDisconnectCallbacks # <<>>
    /\ view.promises = 0

\* C36: wherever ctx.observe was called (in the body of the setup function
\* or in a lifecycle hook), a connect that takes the component from
\* disconnected to connected leaves as many active subscriptions as the
\* first connect left.
ViewSubscriptionsDoNotAccumulate ==
    (view.last.op = "connect" /\ ~view.last.wasConnected) =>
        Len(view.subscriptions) = view.first[1]

\* C35: the operation requested last wins: when connect() was called while
\* the promise of a transition-out was pending, the component is connected
\* after that promise has resolved.
ViewConnectDuringTransitionWins ==
    [][(view.last.op = "connect" /\ view.promises = 1 /\ view'.last.op = "resolve")
          => view'.isConnected]_vars

(***************************************************************************)
(* RouterStore: route matching and the layer diff                          *)
(* src/unnamed/part_008, lines 370-612                                     *)
(***************************************************************************)
\* c.options.routes with the result of matching each path against it: the
\* matched pattern, its redirect ("" when it has none), its layer chain
\* (layer ids in order) and the params parsed from the path.
Routes ==
    [ a   |-> [pattern |-> "/a",      redirect |-> "",   layers |-> <<1>>,       params |-> "{}"],
      ab  |-> [pattern |-> "/a/b",    redirect |-> "",   layers |-> <<1, 2>>,    params |-> "{}"],
      abd |-> [pattern |-> "/a/b/d",  redirect |-> "",   layers |-> <<1, 2, 3>>, params |-> "{}"],
      abe |-> [pattern |-> "/a/b/e",  redirect |-> "",   layers |-> <<1, 2, 4>>, params |-> "{}"],
      ac  |-> [pattern |-> "/a/c",    redirect |-> "",   layers |-> <<1, 5>>,    params |-> "{}"],
      u1  |-> [pattern |-> "/u/{id}", redirect |-> "",   layers |-> <<6>>,       params |-> "{id:1}"],
      u2  |-> [pattern |-> "/u/{id}", redirect |-> "",   layers |-> <<6>>,       params |-> "{id:2}"],
      r   |-> [pattern |-> "/r",      redirect |-> "ab", layers |-> <<>>,        params |-> "{}"] ]

\* Locations the history can report; "nowhere" matches no route.
Paths == DOMAIN Routes \cup {"nowhere"}

\* matchRoutes(c.options.routes, location.pathname)
matched(path) == IF path \in DOMAIN Routes THEN Routes[path] ELSE [pattern |-> "null"]

\* What the listener found when it was called: the stores' values, the active
\* stack, the frames requested, the handles rendered and the DOM.
Was(r) ==
    [pattern |-> r.pattern, path |-> r.path, params |-> r.params,
     activeLayers |-> r.activeLayers, frames |-> r.frames, rendered |-> r.rendered,
     child |-> r.child, connects |-> r.connects]

RouterNew ==
    [ pattern      |-> "null",
      path         |-> "",
      params       |-> "{}",
      activeLayers |-> <<>>,
      frames       |-> <<>>,
      rendered     |-> 0,
      child        |-> [h \in 0..0 |-> 0],
      connects     |-> [h \in 1..0 |-> 0] ]

\* The same, kept in full only by the calls that found their pattern active.
WasPattern(r) == [Was(RouterNew) EXCEPT !.pattern = r.pattern]

RouterInit ==
    router = [ pattern      |-> RouterNew.pattern,
               path         |-> RouterNew.path,
               params       |-> RouterNew.params,
               activeLayers |-> RouterNew.activeLayers,
               frames       |-> RouterNew.frames,
               rendered     |-> RouterNew.rendered,
               child        |-> RouterNew.child,
               connects     |-> RouterNew.connects,
               last         |-> [layers |-> <<>>, before |-> <<>>, rendered |-> <<>>,
                                 op |-> "init", location |-> "", was |-> Was(RouterNew)] ]

\* handle.connected: the handle's node is in the document, that is, reachable
\* from the root view (0) along the children set by setChildren.
RECURSIVE Reaches(_, _, _)
Reaches(child, from, h) ==
    IF child[from] = 0 THEN FALSE
    ELSE IF child[from] = h THEN TRUE
    ELSE Reaches(child, child[from], h)

HandleConnected(child, h) == Reaches(child, 0, h)

\* handle.disconnect(): the handle's node leaves its parent.
HandleDisconnect(child, h) == [p \in DOMAIN child |-> IF child[p] = h THEN 0 ELSE child[p]]

\* parent.setChildren(rendered): rendered replaces the parent's children.
SetChildren(child, parent, rendered) == [child EXCEPT ![parent] = rendered]

\* Mutant: every position counts as a mismatch.
LayerDiffersAlways(activeLayers, layers, i) == TRUE

\* activeLayer?.id !== matchedLayer.id
LayerDiffers(activeLayers, layers, i) ==
    IF i <= Len(activeLayers) THEN activeLayers[i].id # layers[i] ELSE TRUE

\* for (let i = 0; i < layers.length; i++) { ... }: the diff of the matched
\* layer chain against the active stack, from position i on. s carries
\* activeLayers, the queued animation frames, the number of handles rendered
\* and the ids rendered by this run.
RECURSIVE DiffLayers(_, _, _)
DiffLayers(s, layers, i) ==
    IF i > Len(layers) THEN s
    ELSE IF ~LayerDiffers(s.activeLayers, layers, i) THEN DiffLayers(s, layers, i + 1)
    ELSE LET activeLayer == IF i <= Len(s.activeLayers) THEN s.activeLayers[i].handle ELSE 0
             sliced      == SubSeq(s.activeLayers, 1, i - 1)
             parentLayer == IF sliced = <<>> THEN 0 ELSE sliced[Len(sliced)].handle
             handle      == s.rendered + 1
         IN  DiffLayers(
               [s EXCEPT
                  !.activeLayers = Append(sliced, [id |-> layers[i], handle |-> handle]),
                  !.frames = Append(@, [activeLayer |-> activeLayer,
                                        parentLayer |-> parentLayer,
                                        rendered |-> handle]),
                  !.rendered = handle,
                  !.child = [h \in 0..handle |-> IF h = handle THEN 0 ELSE @[h]],
                  !.connects = [h \in 1..handle |-> IF h = handle THEN 0 ELSE @[h]],
                  !.last = [@ EXCEPT !.rendered = Append(@, layers[i])]],
               layers, i + 1)

\* Mutant: the params of the location are not published.
MatchedParamsKept(m) == router.params

\* $$params.set(matched.params)
MatchedParams(m) == m.params

\* The listener, for a location whose route is m.
RouteChanged(path, m) ==
    IF m.pattern = "null"
    THEN [router EXCEPT !.pattern = "null", !.path = path, !.params = "wildcard",
                        !.last.op = "unmatched", !.last.location = path,
                        !.last.was = WasPattern(router)]
    ELSE IF m.pattern = router.pattern
    THEN [router EXCEPT !.path = path, !.params = MatchedParams(m),
                        !.last.op = "matched", !.last.location = path,
                        !.last.was = Was(router)]
    ELSE DiffLayers([router EXCEPT !.pattern = m.pattern, !.path = path,
                                   !.params = MatchedParams(m),
                                   !.last = [layers |-> m.layers,
                                             before |-> router.activeLayers,
                                             rendered |-> <<>>,
                                             op |-> "matched", location |-> path,
                                             was |-> WasPattern(router)]],
                    m.layers, 1)

\* onRouteChange({ location }); a redirect calls history.replace(path), which
\* runs the listener again for the target.
onRouteChange(path) ==
    LET m == matched(path)
        target == IF m.pattern # "null" /\ m.redirect # "" THEN m.redirect ELSE path
        r == RouteChanged(target, matched(target))
    IN  /\ r.rendered <= MaxRenders
        /\ router' = r

\* The callback given to requestAnimationFrame, oldest first.
animationFrame ==
    /\ router.frames # <<>>
    /\ LET f == Head(router.frames)
           detached == IF f.activeLayer # 0 /\ HandleConnected(router.child, f.activeLayer)
                       THEN HandleDisconnect(router.child, f.activeLayer)
                       ELSE router.child
           child == SetChildren(detached, f.parentLayer, f.rendered)
       IN router' = [router EXCEPT
              !.last.op = "frame",
              !.last.location = "",
              !.last.was = Was(RouterNew),
              !.frames = Tail(@),
              !.child = child,
              !.connects = [h \in DOMAIN @ |->
                              IF ~HandleConnected(router.child, h) /\ HandleConnected(child, h)
                              THEN @[h] + 1 ELSE @[h]]]

\* The other subsystems are idle in the router's specification.
RouterOnly == UNCHANGED <<view, map, rebuild, spring, store, scope, nav, cell, dialog, bundle, service, collector, label, motion, outlet>>

RouterStart == RouterInit /\ view = Off /\ map = Off /\ rebuild = Off /\ spring = Off /\ store = Off
    /\ scope = Off /\ nav = Off /\ cell = Off /\ dialog = Off /\ bundle = Off /\ service = Off
    /\ collector = Off /\ label = Off /\ motion = Off /\ outlet = Off

RouterNext ==
    \/ \E path \in Paths : onRouteChange(path) /\ RouterOnly
    \/ animationFrame /\ RouterOnly

SpecRouter == RouterStart /\ [][RouterNext]_vars

\* First position at which the matched chain differs from the active stack
\* (Len(layers) + 1 when none does).
FirstMismatch(before, layers) ==
    CHOOSE k \in 1..Len(layers) + 1 :
        /\ \A i \in 1..k - 1 : i <= Len(before) /\ before[i].id = layers[i]
        /\ k <= Len(layers) => (k > Len(before) \/ before[k].id # layers[k])

\* C3: after a route change whose chain first differs from the active stack at
\* position k, the stack keeps the instances of the positions before k and
\* holds the matched chain, and exactly the layers of the positions from k on
\* were rendered; no instance is ever connected twice; once the queued
\* frames have run, each active layer is the child of the layer before it
\* (the first of the root view) and every replaced instance is disconnected.
RouterReplacesFromFirstMismatch ==
    LET l == router.last
        k == FirstMismatch(l.before, l.layers)
        active == router.activeLayers
    IN  /\ k <= Len(l.layers) =>
              /\ SubSeq(active, 1, k - 1) = SubSeq(l.before, 1, k - 1)
              /\ [i \in 1..Len(active) |-> active[i].id] = l.layers
              /\ l.rendered = SubSeq(l.layers, k, Len(l.layers))
              /\ \A i \in k..Len(active) : \A j \in 1..Len(l.before) :
                    active[i].handle # l.before[j].handle
        /\ \A h \in DOMAIN router.connects : router.connects[h] <= 1
        /\ router.frames = <<>> =>
              /\ \A i \in 1..Len(active) :
                    router.child[IF i = 1 THEN 0 ELSE active[i - 1].handle] = active[i].handle
              /\ \A h \in 1..router.rendered :
                    (\A i \in 1..Len(active) : active[i].handle # h)
                        => ~HandleConnected(router.child, h)

\* The stack [1, 2, 3] met the chain [1, 2, 4] and the frames have run: the
\* new third layer is mounted under the second, the old one is disconnected.
RouterThirdLayerReplaced ==
    LET l == router.last IN
    /\ Len(l.before) = 3 /\ Len(l.layers) = 3
    /\ FirstMismatch(l.before, l.layers) = 3
    /\ router.frames = <<>>
    /\ HandleConnected(router.child, router.activeLayers[3].handle)
    /\ HandleConnected(router.child, l.before[2].handle)
    /\ ~HandleConnected(router.child, l.before[3].handle)

RouterStackIsMatchedChain ==
    LET l == router.last
        active == router.activeLayers
    IN  (l.op = "matched" /\ Routes[l.location].pattern # l.was.pattern) =>
            /\ [i \in 1..Len(active) |-> active[i].id] = Routes[l.location].layers
            /\ router.frames = <<>> =>
                  \A h \in 1..router.rendered :
                      (\E i \in 1..Len(Routes[l.location].layers) :
                            i <= Len(active) /\ active[i].handle = h)
                      \/ ~HandleConnected(router.child, h)

(***************************************************************************)
(* MapComponent: the keyed list ($map)                                     *)
(* src/packages/client/src/elements/text.ts, lines 52-159                  *)
(***************************************************************************)
\* The lists the source emits: items with pairwise different keys, each item
\* standing for its key.
Lists == {l \in SeqsUpTo(1..MaxKeys, MaxKeys) : \A i, j \in 1..Len(l) : l[i] = l[j] => i = j}

\* Mutant: no key is ever found in the tracked state.
TrackedNever(state, key) == {}

\* this.state.find((item) => item.key === key), as the set of the positions
\* of the matching entries.
Tracked(state, key) == {i \in 1..Len(state) : state[i].key = key}

Find(state, key) == state[CHOOSE i \in Tracked(state, key) : \A j \in Tracked(state, key) : i <= j]

\* The keys of newKeys that are not tracked (added), in order.
RECURSIVE Added(_, _, _)
Added(state, newKeys, i) ==
    IF i > Len(newKeys) THEN <<>>
    ELSE (IF Tracked(state, newKeys[i]) = {} THEN <<newKeys[i]>> ELSE <<>>)
            \o Added(state, newKeys, i + 1)

\* The tracked keys that newKeys does not include (removed), in order.
RECURSIVE Removed(_, _, _)
Removed(state, newKeys, i) ==
    IF i > Len(state) THEN <<>>
    ELSE (IF \E j \in 1..Len(newKeys) : newKeys[j] = state[i].key THEN <<>> ELSE <<state[i].key>>)
            \o Removed(state, newKeys, i + 1)

\* const newState = []; for (...) { createItem or reuse; newState.push(...) }
\* created is the number of components made so far; the result carries the
\* new state and the components createItem returned.
RECURSIVE NewState(_, _, _, _)
NewState(state, newKeys, i, acc) ==
    IF i > Len(newKeys) THEN acc
    ELSE LET key == newKeys[i]
             isAdded == \E j \in 1..Len(acc.added) : acc.added[j] = key
             component == IF isAdded THEN acc.created + 1 ELSE Find(state, key).component
         IN  NewState(state, newKeys, i + 1,
                      [acc EXCEPT
                         !.newState = Append(@, [index |-> i, key |-> key, component |-> component]),
                         !.created = IF isAdded THEN @ + 1 ELSE @,
                         !.makes = IF isAdded THEN Append(@, [key |-> key, component |-> component])
                                   ELSE @])

\* component.disconnect(): the component's node leaves the document.
Without(dom, c) == SelectSeq(dom, LAMBDA x : x # c)

\* component.connect(parent, previous) for each item of newState in turn: the
\* nodes follow the list's anchor in the order of newState, before the nodes
\* that were not touched.
RECURSIVE Remount(_, _, _)
Remount(dom, newState, i) ==
    IF i = 0 THEN dom
    ELSE Remount(<<newState[i].component>> \o Without(dom, newState[i].component), newState, i - 1)

RECURSIVE Unmount(_, _, _, _)
Unmount(dom, state, removed, i) ==
    IF i > Len(removed) THEN dom
    ELSE Unmount(IF Tracked(state, removed[i]) = {} THEN dom
                 ELSE Without(dom, Find(state, removed[i]).component),
                 state, removed, i + 1)

\* The fields of a MapComponent before its constructor's first update.
MapNew ==
    [ state   |-> <<>>,
      frames  |-> <<>>,
      created |-> 0,
      dom     |-> <<>>,
      list    |-> <<>>,
      updates |-> 0,
      last    |-> [op |-> "init", before |-> <<>>, makes |-> <<>>,
                   dom |-> <<>>, alone |-> FALSE] ]

\* private update(list: T[]), applied to the fields m.
Updated(m, list) ==
    LET r == NewState(m.state, list, 1,
                      [newState |-> <<>>, created |-> m.created, makes |-> <<>>,
                       added |-> Added(m.state, list, 1)])
    IN  [m EXCEPT
           !.frames = Append(@, [removed |-> Removed(m.state, list, 1),
                                 newState |-> r.newState,
                                 alone |-> m.frames = <<>>]),
           !.created = r.created,
           !.list = list,
           !.updates = @ + 1,
           !.last = [op |-> "update", before |-> m.state, makes |-> r.makes,
                     dom |-> m.dom, alone |-> m.frames = <<>>]]

\* constructor: this.update(this.subscription.initialValue)
MapInit == \E list \in Lists : map = [Updated(MapNew, list) EXCEPT !.updates = 0]

\* this.subscription.receiver.callback = this.update.bind(this)
update(list) ==
    /\ map.updates < MaxUpdates
    /\ map' = Updated(map, list)

\* requestAnimationFrame(() => { ... }), oldest first.
mapFrame ==
    /\ map.frames # <<>>
    /\ LET f == Head(map.frames) IN
       map' = [map EXCEPT
          !.frames = Tail(@),
          !.dom = Remount(Unmount(@, map.state, f.removed, 1), f.newState, Len(f.newState)),
          !.state = f.newState,
          !.last = [op |-> "frame", before |-> map.state, makes |-> <<>>,
                    dom |-> map.dom, alone |-> f.alone /\ Len(map.frames) = 1]]

\* The other subsystems are idle in the keyed list's specification.
MapOnly == UNCHANGED <<view, router, rebuild, spring, store, scope, nav, cell, dialog, bundle, service, collector, label, motion, outlet>>

MapStart == MapInit /\ view = Off /\ router = Off /\ rebuild = Off /\ spring = Off /\ store = Off
    /\ scope = Off /\ nav = Off /\ cell = Off /\ dialog = Off /\ bundle = Off /\ service = Off
    /\ collector = Off /\ label = Off /\ motion = Off /\ outlet = Off

MapNext ==
    \/ \E list \in Lists : update(list) /\ MapOnly
    \/ mapFrame /\ MapOnly

SpecMap == MapStart /\ [][MapNext]_vars

KeysOf(state) == [i \in 1..Len(state) |-> state[i].key]

ComponentsOf(state) == [i \in 1..Len(state) |-> state[i].component]

InDocument(dom) == {dom[i] : i \in 1..Len(dom)}

HasKey(state, key) == \E i \in 1..Len(state) : state[i].key = key

MapFramesCollapse ==
    map.frames = <<>> =>
        /\ KeysOf(map.state) = map.list
        /\ map.dom = ComponentsOf(map.state)

(***************************************************************************)
(* makeTimeoutTrigger: the debounced rebuild trigger of the watch server   *)
(* src/unnamed/part_003, lines 302-330                                     *)
(***************************************************************************)
\* timer is the id the variable holds (0 for null); scheduled holds the ids
\* of the timeouts set and neither fired nor cleared; executing counts the
\* calls of run() that await the callback. calls, runs and arrived count the
\* trigger calls, the runs started and the trigger calls since the current
\* run began.
RebuildInit ==
    rebuild = [ timer |-> 0, queued |-> FALSE, running |-> FALSE,
                scheduled |-> {}, executing |-> 0,
                calls |-> 0, runs |-> 0, arrived |-> 0,
                last |-> [op |-> "init", arrived |-> 0] ]

\* setTimeout(run, timeout): an id no live timeout has.
SetTimeout(r) == CHOOSE id \in 1..MaxCalls + 1 : id \notin r.scheduled /\ id # r.timer

\* Mutant: the trigger does not look at the timer it already holds.
TimerIsNullAlways == TRUE

\* timer == null
TimerIsNull == rebuild.timer = 0

\* Mutant: a call that finds a run executing is forgotten.
QueuedByTriggerNever(r) == r.queued

\* if (running) { queued = true; }
QueuedByTrigger(r) == IF r.running THEN TRUE ELSE r.queued

\* return function trigger() { ... }
trigger ==
    /\ rebuild.calls < MaxCalls
    /\ rebuild' = [rebuild EXCEPT
          !.queued = QueuedByTrigger(rebuild),
          !.timer = IF ~rebuild.running /\ TimerIsNull THEN SetTimeout(rebuild) ELSE @,
          !.scheduled = IF ~rebuild.running /\ TimerIsNull
                        THEN @ \cup {SetTimeout(rebuild)} ELSE @,
          !.calls = @ + 1,
          !.arrived = IF rebuild.executing > 0 THEN @ + 1 ELSE @,
          !.last = [op |-> "trigger", arrived |-> rebuild.arrived]]

\* A timeout fires: run() up to its await.
timerFires(id) ==
    /\ id \in rebuild.scheduled
    /\ rebuild' = [rebuild EXCEPT
          !.running = TRUE,
          !.scheduled = (@ \ {id}) \ {rebuild.timer},
          !.timer = 0,
          !.executing = @ + 1,
          !.runs = @ + 1,
          !.arrived = 0,
          !.last = [op |-> "run", arrived |-> rebuild.arrived]]

\* The callback's promise resolves: run() after its await.
buildCompletes ==
    /\ rebuild.executing > 0
    /\ rebuild' = [rebuild EXCEPT
          !.running = FALSE,
          !.queued = FALSE,
          !.timer = IF rebuild.queued THEN SetTimeout(rebuild) ELSE @,
          !.scheduled = IF rebuild.queued THEN @ \cup {SetTimeout(rebuild)} ELSE @,
          !.executing = @ - 1,
          !.last = [op |-> "complete", arrived |-> rebuild.arrived]]

\* The other subsystems are idle in the trigger's specification.
RebuildOnly == UNCHANGED <<view, router, map, spring, store, scope, nav, cell, dialog, bundle, service, collector, label, motion, outlet>>

RebuildStart == RebuildInit /\ view = Off /\ router = Off /\ map = Off /\ spring = Off /\ store = Off
    /\ scope = Off /\ nav = Off /\ cell = Off /\ dialog = Off /\ bundle = Off /\ service = Off
    /\ collector = Off /\ label = Off /\ motion = Off /\ outlet = Off

RebuildNext ==
    \/ trigger /\ RebuildOnly
    \/ \E id \in 1..MaxCalls + 1 : timerFires(id) /\ RebuildOnly
    \/ buildCompletes /\ RebuildOnly

SpecRebuild == RebuildStart /\ [][RebuildNext]_vars

\* C6: at most one run is executing; at most one further run is pending, as
\* a scheduled timeout or as the queued flag; while a run executes the
\* trigger calls that arrived are held by the queued flag alone, and when it
\* completes exactly one timeout is scheduled if any arrived and none
\* otherwise.
RebuildCoalesces ==
    /\ rebuild.executing <= 1
    /\ Cardinality(rebuild.scheduled) + (IF rebuild.queued THEN 1 ELSE 0) <= 1
    /\ rebuild.executing = 1 =>
          /\ rebuild.scheduled = {}
          /\ rebuild.queued <=> rebuild.arrived > 0
    /\ rebuild.last.op = "complete" =>
          /\ rebuild.executing = 0
          /\ Cardinality(rebuild.scheduled) = IF rebuild.last.arrived > 0 THEN 1 ELSE 0
    /\ rebuild.runs <= rebuild.calls

\* Three trigger calls arrived during one run, which has completed.
RebuildQueuedOnce ==
    /\ rebuild.last.op = "complete"
    /\ rebuild.last.arrived = 3
    /\ Cardinality(rebuild.scheduled) = 1

\* Timers fire and every run of the callback completes.
SpecRebuildFair ==
    /\ RebuildStart /\ [][RebuildNext]_vars
    /\ WF_vars(\E id \in 1..MaxCalls + 1 : timerFires(id) /\ RebuildOnly)
    /\ WF_vars(buildCompletes /\ RebuildOnly)

\* C39: provided timers fire and every run of the callback completes, every
\* call of the trigger is eventually followed by the start of a run of the
\* callback.
RebuildEveryCallIsBuilt ==
    (rebuild.last.op = "trigger") ~> (rebuild.last.op = "run")

\* A call arrived while the first run was executing, and the second run has
\* started after that run completed.
RebuildQueuedCallServed ==
    /\ rebuild.last.op = "run"
    /\ rebuild.runs = 2
    /\ rebuild.calls = 2
    /\ rebuild.last.arrived = 1

(***************************************************************************)
(* spring: animateTo / snapTo                                              *)
(* src/unnamed/part_007, lines 51-131                                      *)
(***************************************************************************)
\* The values a spring is sent to.
EndValues == {0, 10}

\* frames holds the step callbacks given to requestAnimationFrame and not yet
\* run, oldest first; resolved holds the ids of the animations whose promise
\* is resolved. currentAnimationId is -1 for undefined.
SpringInit ==
    spring = [ currentValue |-> 0, nextId |-> 0, currentAnimationId |-> -1,
               frames |-> <<>>, resolved |-> {},
               last |-> [op |-> "init", id |-> -1, stale |-> FALSE,
                         currentValue |-> 0, currentAnimationId |-> -1] ]

SpringLast(op, id) ==
    [op |-> op, id |-> id, stale |-> spring.currentAnimationId # id,
     currentValue |-> spring.currentValue,
     currentAnimationId |-> spring.currentAnimationId]

\* const snapTo = async (newValue) => { ... }
snapTo(newValue) ==
    spring' = [spring EXCEPT !.currentAnimationId = -1,
                             !.currentValue = newValue,
                             !.last = SpringLast("snapTo", -1)]

\* const animateTo = async (endValue, options) => { ... }; reduce is the
\* answer of the (prefers-reduced-motion: reduce) media query.
animateTo(endValue, reduce) ==
    IF reduce THEN snapTo(endValue)
    ELSE /\ spring.nextId < MaxAnimations
         /\ LET id == spring.nextId IN
            spring' = [spring EXCEPT
               !.nextId = @ + 1,
               !.currentAnimationId = id,
               !.frames = Append(@, [id |-> id, startValue |-> spring.currentValue,
                                     endValue |-> endValue]),
               !.last = SpringLast("animateTo", id)]

\* Mutant: a step never notices that its animation was replaced.
IsStaleNever(id) == FALSE

\* currentAnimationId !== id
IsStale(id) == spring.currentAnimationId # id

\* const step = () => { ... }, for the oldest callback requested. proportion
\* is the solver's answer (0: still at the start, 1: at the end value) and
\* settled says that the amplitude fell below the threshold.
step(proportion, settled) ==
    /\ spring.frames # <<>>
    /\ LET f == Head(spring.frames) IN
       IF IsStale(f.id)
       THEN spring' = [spring EXCEPT !.frames = Tail(@),
                                     !.resolved = @ \cup {f.id},
                                     !.last = SpringLast("step", f.id)]
       ELSE spring' = [spring EXCEPT
               !.currentValue = IF settled THEN f.endValue
                                ELSE f.startValue + (f.endValue - f.startValue) * proportion,
               !.currentAnimationId = IF settled THEN -1 ELSE @,
               !.frames = Append(Tail(@), f),
               !.last = SpringLast("step", f.id)]

\* The other subsystems are idle in the spring's specification.
SpringOnly == UNCHANGED <<view, router, map, rebuild, store, scope, nav, cell, dialog, bundle, service, collector, label, motion, outlet>>

SpringStart == SpringInit /\ view = Off /\ router = Off /\ map = Off /\ rebuild = Off /\ store = Off
    /\ scope = Off /\ nav = Off /\ cell = Off /\ dialog = Off /\ bundle = Off /\ service = Off
    /\ collector = Off /\ label = Off /\ motion = Off /\ outlet = Off

SpringNext ==
    \/ \E newValue \in EndValues : snapTo(newValue) /\ SpringOnly
    \/ \E endValue \in EndValues, reduce \in BOOLEAN : animateTo(endValue, reduce) /\ SpringOnly
    \/ \E proportion \in 0..1, settled \in BOOLEAN : step(proportion, settled) /\ SpringOnly

SpecSpring == SpringStart /\ [][SpringNext]_vars

\* C7: a frame callback of an animation that is no longer the current one
\* resolves that animation's promise, requests no further frame and leaves
\* the value and the current id as they were; at most one requested callback
\* belongs to the current animation, so at most one animation writes.
SpringStaleStepWritesNothing ==
    LET l == spring.last IN
    /\ (l.op = "step" /\ l.stale) =>
          /\ spring.currentValue = l.currentValue
          /\ spring.currentAnimationId = l.currentAnimationId
          /\ l.id \in spring.resolved
          /\ \A i \in 1..Len(spring.frames) : spring.frames[i].id # l.id
    /\ Cardinality({i \in 1..Len(spring.frames) :
                        spring.frames[i].id = spring.currentAnimationId}) <= 1

\* The callback of an animation replaced by a later animateTo has run while
\* the later animation is in flight and the value is away from where the
\* earlier one was heading.
SpringStaleStepRan ==
    LET l == spring.last IN
    /\ l.op = "step" /\ l.stale
    /\ l.currentAnimationId > l.id
    /\ l.id >= 0
    /\ spring.frames # <<>>
    /\ spring.currentValue = 10

(***************************************************************************)
(* Store: setup, connect and disconnect                                    *)
(* src/unnamed/part_006, lines 90-443                                      *)
(***************************************************************************)
\* What one call of the setup function ends in: it returns an object, throws
\* an Error, throws a value that is no Error, returns something that is no
\* object, or returns a promise that resolves to an object or rejects with
\* an Error.
Outcomes == {"object", "throws", "throwsValue", "invalid", "resolves", "rejects"}

\* A store is made with its setup function, which calls ctx.observe,
\* ctx.onConnect and ctx.onDisconnect a fixed number of times each. inDocument
\* says that the store's node has a parent; active holds the subscriptions
\* started and not stopped, with the setup call that made each; setups counts
\* the calls of setup and failed says that one of them did not return an
\* object or a promise.
StoreInit ==
    \E no \in 0..MaxCallbacks, nc \in 0..MaxCallbacks, nd \in 0..MaxCallbacks :
        store = [ observes     |-> no,
                  onConnects   |-> nc,
                  onDisconnects |-> nd,
                  onConnect    |-> <<>>,
                  onDisconnect |-> <<>>,
                  stopCallbacks |-> <<>>,
                  active       |-> {},
                  isConnected  |-> FALSE,
                  inDocument   |-> FALSE,
                  setups       |-> 0,
                  failed       |-> FALSE,
                  last         |-> [op |-> "init", wasConnected |-> FALSE, outcome |-> "object",
                                    crashed |-> FALSE, rejected |-> FALSE, calls |-> <<>>,
                                    stopped |-> <<>>] ]

\* Connectable: get isConnected()
StoreIsConnected == store.inDocument

\* The callbacks one call of setup pushes on lifecycleCallbacks.onConnect:
\* ctx.observe (store not connected) pushes a callback that starts the
\* observer, ctx.onConnect pushes the user's callback. n is the number of the
\* setup call.
SetupOnConnect(n) ==
    [i \in 1..store.observes |-> <<"observe", i, n>>]
        \o [i \in 1..store.onConnects |-> <<"onConnect", i, n>>]

SetupOnDisconnect(n) == [i \in 1..store.onDisconnects |-> <<"onDisconnect", i, n>>]

\* catch (error) { if (error instanceof Error) crashCollector.crash(...) }
Crashes(outcome) == outcome \in {"throws", "rejects"}

\* if (!(outputs != null && typeof outputs === "object" && !Array.isArray(outputs)))
\*   throw new TypeError(...)
\* After a throw outputs is still undefined; after a rejection it is still
\* the promise, which is an object.
InvalidOutputs(outcome) == outcome \in {"throws", "throwsValue", "invalid"}

\* The observers the onConnect callbacks cbs start, in order.
RECURSIVE Starts(_, _)
Starts(cbs, i) ==
    IF i > Len(cbs) THEN <<>>
    ELSE (IF cbs[i][1] = "observe" THEN <<<<cbs[i][2], cbs[i][3]>>>> ELSE <<>>) \o Starts(cbs, i + 1)

StoreLast(op, outcome, rejected, calls, stopped) ==
    [op |-> op, wasConnected |-> store.inDocument, outcome |-> outcome,
     crashed |-> Crashes(outcome) /\ op = "connect" /\ ~store.inDocument,
     rejected |-> rejected, calls |-> calls, stopped |-> stopped]

\* async connect(parent, after), awaited by its caller; outcome is what the
\* setup function does if it is called.
storeConnect(outcome) ==
    IF StoreIsConnected
    THEN store' = [store EXCEPT !.last = StoreLast("connect", "object", FALSE, <<>>, <<>>)]
    ELSE /\ store.setups < MaxSetups
         /\ LET n == store.setups + 1
                onConnect == store.onConnect \o SetupOnConnect(n)
                onDisconnect == store.onDisconnect \o SetupOnDisconnect(n)
            IN  IF InvalidOutputs(outcome)
                THEN store' = [store EXCEPT
                        !.setups = n,
                        !.failed = TRUE,
                        !.onConnect = onConnect,
                        !.onDisconnect = onDisconnect,
                        !.last = StoreLast("connect", outcome, TRUE, <<>>, <<>>)]
                ELSE store' = [store EXCEPT
                        !.setups = n,
                        !.onConnect = onConnect,
                        !.onDisconnect = onDisconnect,
                        !.inDocument = TRUE,
                        !.isConnected = TRUE,
                        !.stopCallbacks = @ \o Starts(onConnect, 1),
                        !.active = @ \cup {Starts(onConnect, 1)[i] : i \in 1..Len(Starts(onConnect, 1))},
                        !.last = StoreLast("connect", outcome, FALSE, onConnect, <<>>)]

\* const wasConnected = this.isConnected; if (!wasConnected) { ... } (disconnect)
RunsDisconnectHooks == ~StoreIsConnected

\* async disconnect(), awaited by its caller.
storeDisconnect ==
    IF RunsDisconnectHooks
    THEN store' = [store EXCEPT
            !.stopCallbacks = <<>>,
            !.active = @ \ {store.stopCallbacks[i] : i \in 1..Len(store.stopCallbacks)},
            !.inDocument = FALSE,
            !.isConnected = FALSE,
            !.last = StoreLast("disconnect", "object", FALSE, store.onDisconnect, store.stopCallbacks)]
    ELSE store' = [store EXCEPT
            !.inDocument = FALSE,
            !.last = StoreLast("disconnect", "object", FALSE, <<>>, <<>>)]

\* The other subsystems are idle in the store's specification.
StoreOnly == UNCHANGED <<view, router, map, rebuild, spring, scope, nav, cell, dialog, bundle, service, collector, label, motion, outlet>>

StoreStart == StoreInit /\ view = Off /\ router = Off /\ map = Off /\ rebuild = Off /\ spring = Off
    /\ scope = Off /\ nav = Off /\ cell = Off /\ dialog = Off /\ bundle = Off /\ service = Off
    /\ collector = Off /\ label = Off /\ motion = Off /\ outlet = Off

StoreNext ==
    \/ \E outcome \in Outcomes : storeConnect(outcome) /\ StoreOnly
    \/ storeDisconnect /\ StoreOnly

SpecStore == StoreStart /\ [][StoreNext]_vars

\* C8: over any sequence of connect and disconnect calls the setup function
\* of a store is called at most once and no lifecycle callback is registered
\* twice (stated here for the runs in which no setup call failed).
StoreSetupRunsOnce ==
    ~store.failed =>
        /\ store.setups <= 1
        /\ Len(store.onConnect) <= store.observes + store.onConnects
        /\ Len(store.onDisconnect) <= store.onDisconnects

\* C9: after disconnect() on a connected store no subscription is active,
\* every subscription it held was stopped and every onDisconnect callback
\* ran once.
StoreDisconnectTearsDown ==
    (store.last.op = "disconnect" /\ store.last.wasConnected) =>
        /\ store.active = {}
        /\ store.stopCallbacks = <<>>
        /\ store.last.calls = store.onDisconnect

\* C10: a connect() whose setup call throws, or returns a promise that
\* rejects, reports to crash() and does not reject.
StoreSetupFailureContained ==
    (store.last.op = "connect" /\ ~store.last.wasConnected
        /\ store.last.outcome \in {"throws", "rejects"}) =>
        /\ store.last.crashed
        /\ ~store.last.rejected

(***************************************************************************)
(* StoreContext.useStore: resolution of a store by name or constructor     *)
(* src/unnamed/part_006, lines 162-169 and 229-271                         *)
(***************************************************************************)
\* The built-in store names and the store constructors a caller asks for.
\* "Self" is the constructor of the store whose context the call is made on.
StoreNames == {"router"}

StoreConstructors == {"Self", "Other"}

\* Store.constructor: the element scope of the store is the scope it was
\* given plus an entry for its own constructor, which holds the store itself.
ElementScope(inherited) ==
    [c \in StoreConstructors |-> IF c = "Self" THEN "this" ELSE inherited[c]]

\* app holds, for every key, whether appContext.stores has no entry for it,
\* an entry without instance or an entry with instance; element holds, for
\* every constructor, whether elementContext.stores has no entry, the
\* instance of an ancestor or the store itself. phase is the position of the
\* store in #initialize and outputs says whether this.outputs was assigned.
ScopeInit ==
    \E app \in [StoreNames \cup StoreConstructors -> {"absent", "registered", "instance"}],
       inherited \in [StoreConstructors -> {"absent", "ancestor"}] :
        scope = [ app     |-> app,
                  element |-> ElementScope(inherited),
                  phase   |-> "constructed",
                  outputs |-> FALSE,
                  last    |-> [op |-> "init", key |-> "Self", phase |-> "constructed",
                               app |-> "absent", element |-> "absent",
                               result |-> [kind |-> "none", of |-> "none"],
                               warned |-> FALSE] ]

\* typeof nameOrStore === "string"
IsName(nameOrStore) == nameOrStore \in StoreNames

\* appContext.stores.has(key)
AppHas(key) == scope.app[key] # "absent"

\* Mutant: the element scope is never consulted.
ElementHasNever(ctor) == FALSE

\* elementContext.stores.has(store)
ElementHas(ctor) == scope.element[ctor] # "absent"

\* _store.instance.outputs of an app-level entry.
AppOutputs(key) ==
    IF scope.app[key] # "instance" THEN [kind |-> "beforeSetup", of |-> "none"]
    ELSE [kind |-> "outputs", of |-> "app"]

\* elementContext.stores.get(store)!.instance!.outputs: the outputs field of
\* the store itself is undefined until #initialize assigns it; an ancestor
\* has assigned its own before its children were connected.
ElementOutputs(ctor) ==
    IF scope.element[ctor] = "this" /\ ~scope.outputs
    THEN [kind |-> "undefined", of |-> "local"]
    ELSE [kind |-> "outputs", of |-> "local"]

\* useStore: (nameOrStore) => { ... }: what the call returns or throws and
\* whether it logged the shadowing warning.
UseStore(nameOrStore) ==
    IF IsName(nameOrStore)
    THEN [result |-> IF AppHas(nameOrStore) THEN AppOutputs(nameOrStore)
                     ELSE [kind |-> "undefined", of |-> "none"],
          warned |-> FALSE]
    ELSE IF ElementHas(nameOrStore)
    THEN [result |-> ElementOutputs(nameOrStore), warned |-> AppHas(nameOrStore)]
    ELSE IF AppHas(nameOrStore)
    THEN [result |-> AppOutputs(nameOrStore), warned |-> FALSE]
    ELSE [result |-> [kind |-> "notRegistered", of |-> "none"], warned |-> FALSE]

\* #initialize up to the call of this.setup(ctx).
initialize ==
    /\ scope.phase \in {"constructed", "ready"}
    /\ scope' = [scope EXCEPT !.phase = "setup", !.last.op = "initialize"]

\* The setup function returns an object: this.outputs = outputs.
setupReturns ==
    /\ scope.phase = "setup"
    /\ scope' = [scope EXCEPT !.phase = "ready", !.outputs = TRUE, !.last.op = "setupReturns"]

\* The app sets up one of its registered stores.
appSetup(key) ==
    /\ scope.app[key] = "registered"
    /\ scope' = [scope EXCEPT !.app[key] = "instance", !.last.op = "appSetup"]

\* ctx.useStore(nameOrStore), called by the setup function or by a callback
\* it registered.
useStore(nameOrStore) ==
    /\ scope.phase \in {"setup", "ready"}
    /\ LET r == UseStore(nameOrStore) IN
       scope' = [scope EXCEPT
          !.last = [op |-> "useStore", key |-> nameOrStore, phase |-> scope.phase,
                    app |-> scope.app[nameOrStore],
                    element |-> IF nameOrStore \in StoreConstructors
                                THEN scope.element[nameOrStore] ELSE "absent",
                    result |-> r.result, warned |-> r.warned]]

\* The other subsystems are idle in the specification of the store scopes.
ScopeOnly == UNCHANGED <<view, router, map, rebuild, spring, store, nav, cell, dialog, bundle, service, collector, label, motion, outlet>>

ScopeStart == ScopeInit /\ view = Off /\ router = Off /\ map = Off /\ rebuild = Off
    /\ spring = Off /\ store = Off /\ nav = Off /\ cell = Off /\ dialog = Off /\ bundle = Off
    /\ service = Off /\ collector = Off /\ label = Off /\ motion = Off /\ outlet = Off

ScopeNext ==
    \/ initialize /\ ScopeOnly
    \/ setupReturns /\ ScopeOnly
    \/ \E key \in StoreNames \cup StoreConstructors : appSetup(key) /\ ScopeOnly
    \/ \E nameOrStore \in StoreNames \cup StoreConstructors : useStore(nameOrStore) /\ ScopeOnly

SpecScope == ScopeStart /\ [][ScopeNext]_vars

\* C11: useStore with a name or a constructor other than the caller's own
\* throws 'not registered' when neither scope holds the store, throws
\* 'accessed before it was set up' when only the app scope holds it and
\* without instance, and returns the store's outputs otherwise; it never
\* returns undefined.
UseStoreThrowsOrReturnsOutputs ==
    LET l == scope.last IN
    (l.op = "useStore" /\ l.key # "Self") =>
        /\ l.result.kind # "undefined"
        /\ (l.app = "absent" /\ l.element = "absent") => l.result.kind = "notRegistered"
        /\ (l.app = "registered" /\ l.element = "absent") => l.result.kind = "beforeSetup"
        /\ (l.app = "instance" \/ l.element # "absent") => l.result.kind = "outputs"

\* C12: useStore with the constructor of an ancestor's store returns the
\* outputs of that local instance, and logs the shadowing warning exactly
\* when the app scope has an entry for the constructor too; without a local
\* entry it returns the outputs of the app-level instance and logs nothing.
UseStorePrefersLocal ==
    LET l == scope.last IN
    (l.op = "useStore" /\ l.key \in StoreConstructors \ {"Self"}) =>
        /\ l.element # "absent" =>
              /\ l.result = [kind |-> "outputs", of |-> "local"]
              /\ l.warned <=> l.app # "absent"
        /\ (l.element = "absent" /\ l.app = "instance") =>
              /\ l.result = [kind |-> "outputs", of |-> "app"]
              /\ ~l.warned

\* A constructor registered at app level, with instance, and by an ancestor
\* was resolved: the local outputs came back with the warning.
UseStoreShadowed ==
    LET l == scope.last IN
    /\ l.op = "useStore" /\ l.key = "Other"
    /\ l.element = "ancestor" /\ l.app = "instance"
    /\ l.result = [kind |-> "outputs", of |-> "local"]
    /\ l.warned

\* C13: useStore with the caller's own constructor, called while the
\* caller's setup function runs, throws.
StoreSelfResolutionFails ==
    LET l == scope.last IN
    (l.op = "useStore" /\ l.key = "Self" /\ l.phase = "setup") =>
        l.result.kind \in {"notRegistered", "beforeSetup"}

(***************************************************************************)
(* RouterStore: redirect validation, history listener and $$query          *)
(* src/unnamed/part_008, lines 370-500                                     *)
(***************************************************************************)
\* Most history.replace calls delivered in a row without a navigation or a
\* write of the user in between.
MaxHops == 3

\* The patterns a route table may hold and the paths a redirect may name.
Patterns == {"/a", "/b", "/c"}

Targets == Patterns \cup {"/missing"}

\* c.options.routes: for every pattern, no route ("absent"), a route with
\* layers ("plain") or a route whose meta.redirect is the given path.
RouteTables ==
    {t \in [Patterns -> {"absent", "plain"} \cup Targets] : t["/c"] \in {"absent", "plain"}}

\* location.search as the history reports it.
Searches == {"", "?", "?q=1", "?q=2"}

\* parseQueryParams(location.search)
ParseQuery(search) ==
    CASE search = "?q=1" -> "{q:1}"
      [] search = "?q=2" -> "{q:2}"
      [] OTHER -> "{}"

\* "?" + params.toString(), params built from the keys of the query object
StringifyQuery(query) ==
    CASE query = "{q:1}" -> "?q=1"
      [] query = "{q:2}" -> "?q=2"
      [] OTHER -> "?"

Queries == {ParseQuery(search) : search \in Searches}

\* Mutant: the redirecting route itself may answer for its target.
WillMatchAny(r, route) == TRUE

\* willMatch(r) { return r !== route; }
WillMatch(r, route) == r # route

\* matchRoutes(routes, path, { willMatch }): the pattern of the route that
\* matches path, "null" when none does. route is the route willMatch
\* excludes ("none" when the call passes no willMatch).
matchRoutes(routes, path, route) ==
    IF path \in Patterns /\ routes[path] # "absent" /\ (route = "none" \/ WillMatch(path, route))
    THEN path ELSE "null"

\* if (route.meta.redirect)
HasRedirect(routes, route) == routes[route] \in Targets

\* for (const route of c.options.routes) { ... throw new Error(...) }
RedirectsExist(routes) ==
    \A route \in Patterns :
        (routes[route] # "absent" /\ HasRedirect(routes, route))
            => matchRoutes(routes, routes[route], route) # "null"

\* The history is at some location when the store is made. pending holds the
\* locations of the history.replace calls whose listeners have not run yet.
NavInit ==
    \E routes \in RouteTables, pathname \in Targets, search \in Searches :
        nav = [ routes        |-> routes,
                phase         |-> "new",
                listening     |-> FALSE,
                observing     |-> FALSE,
                location      |-> [pathname |-> pathname, search |-> search],
                pending       |-> <<>>,
                pattern       |-> "null",
                path          |-> "",
                query         |-> "{}",
                lastQuery     |-> "undefined",
                isRouteChange |-> FALSE,
                hops          |-> 0,
                issued        |-> 0,
                atDisconnect  |-> [pattern |-> "null", path |-> "", query |-> "{}"],
                last          |-> [op |-> "init", cause |-> "none", handled |-> FALSE,
                                   search |-> "", differed |-> FALSE, issued |-> 0] ]

\* history.replace(to): the location changes at once; the listener, if one
\* is registered, is owed a call with the new location.
HistoryReplace(s, to, cause) ==
    [s EXCEPT !.location = to,
              !.pending = IF s.listening THEN Append(@, [location |-> to, cause |-> cause]) ELSE @]

\* Mutant: the observer never takes a change for the listener's own.
SkipsReplaceNever(s) == FALSE

\* if (isRouteChange)
SkipsReplace(s) == s.isRouteChange

\* c.observe($$query, (current) => { ... })
QueryObserver(s) ==
    IF SkipsReplace(s) THEN [s EXCEPT !.isRouteChange = FALSE]
    ELSE HistoryReplace([s EXCEPT !.issued = @ + 1],
                        [pathname |-> s.location.pathname, search |-> StringifyQuery(s.query)],
                        "query")

\* $$query.set(query) with an object made for this call: the value differs
\* from the current one, so the observers are notified.
QuerySet(s, query) ==
    LET set == [s EXCEPT !.query = query] IN
    IF s.observing THEN QueryObserver(set) ELSE set

\* Mutant: no route is taken for a redirect when a location is handled.
RedirectsNever(routes, pattern) == FALSE

\* matched.meta.redirect != null
Redirects(routes, pattern) == routes[pattern] \in Targets

\* const onRouteChange: Listener = async ({ location }) => { ... }, without
\* the layer diff.
Listener(s, location) ==
    LET q == IF location.search # s.lastQuery
             THEN QuerySet([s EXCEPT !.lastQuery = location.search, !.isRouteChange = TRUE],
                           ParseQuery(location.search))
             ELSE s
        m == matchRoutes(s.routes, location.pathname, "none")
    IN  IF m = "null"
        THEN [q EXCEPT !.pattern = "null", !.path = location.pathname]
        ELSE IF Redirects(s.routes, m)
        THEN HistoryReplace(q, [pathname |-> s.routes[m], search |-> ""], "redirect")
        ELSE [q EXCEPT !.pattern = m, !.path = location.pathname]

\* The record of the call that just returned; search is the query string
\* the listener was given.
NavLast(s, op, cause, handled, search) ==
    [s EXCEPT !.issued = 0,
              !.last = [op |-> op, cause |-> cause, handled |-> handled, search |-> search,
                        differed |-> handled /\ search # nav.lastQuery,
                        issued |-> s.issued]]

\* RouterStore(c): the setup function of the store.
routerSetup ==
    /\ nav.phase = "new"
    /\ nav' = NavLast([nav EXCEPT !.phase = IF RedirectsExist(nav.routes) THEN "ready" ELSE "threw"],
                      "setup", "none", FALSE, "")

\* The store connects: the observer of $$query starts, then the callback
\* given to c.onConnected runs. immediate says whether the observer is called
\* with the current value when it starts.
routerConnect(immediate) ==
    /\ nav.phase = "ready"
    /\ LET started == [nav EXCEPT !.phase = "connected", !.observing = TRUE, !.hops = 0]
           observed == IF immediate THEN QueryObserver(started) ELSE started
       IN  nav' = NavLast(Listener([observed EXCEPT !.listening = TRUE], observed.location),
                          "connect", "none", TRUE, observed.location.search)

\* The listener runs for the oldest history.replace not yet delivered.
deliver ==
    /\ nav.pending # <<>>
    /\ nav.hops < MaxHops
    /\ LET p == Head(nav.pending) IN
       nav' = NavLast(Listener([nav EXCEPT !.pending = Tail(@), !.hops = @ + 1], p.location),
                      "deliver", p.cause, TRUE, p.location.search)

\* The user follows a link or moves in the history: history.push or a
\* popstate event.
push(pathname, search) ==
    /\ nav.phase \in {"ready", "connected", "disconnected"}
    /\ nav.pending = <<>>
    /\ LET location == [pathname |-> pathname, search |-> search]
           moved == [nav EXCEPT !.location = location, !.hops = 0]
       IN  nav' = NavLast(IF nav.listening THEN Listener(moved, location) ELSE moved,
                          "push", "none", nav.listening, search)

\* The user writes $$query.
writeQuery(query) ==
    /\ nav.phase = "connected"
    /\ nav.pending = <<>>
    /\ nav' = NavLast(QuerySet([nav EXCEPT !.hops = 0], query), "write", "none", FALSE, "")

\* The store disconnects: the observer of $$query stops. The setup function
\* registers nothing else for the disconnect.
routerDisconnect ==
    /\ nav.phase = "connected"
    /\ nav.pending = <<>>
    /\ nav' = NavLast([nav EXCEPT !.phase = "disconnected", !.observing = FALSE,
                                  !.atDisconnect = [pattern |-> nav.pattern, path |-> nav.path,
                                                    query |-> nav.query]],
                      "disconnect", "none", FALSE, "")

\* The other subsystems are idle in the specification of the history.
NavOnly == UNCHANGED <<view, router, map, rebuild, spring, store, scope, cell, dialog, bundle, service, collector, label, motion, outlet>>

NavStart == NavInit /\ view = Off /\ router = Off /\ map = Off /\ rebuild = Off
    /\ spring = Off /\ store = Off /\ scope = Off /\ cell = Off /\ dialog = Off /\ bundle = Off
    /\ service = Off /\ collector = Off /\ label = Off /\ motion = Off /\ outlet = Off

NavNext ==
    \/ routerSetup /\ NavOnly
    \/ \E immediate \in BOOLEAN : routerConnect(immediate) /\ NavOnly
    \/ deliver /\ NavOnly
    \/ \E pathname \in Targets, search \in Searches : push(pathname, search) /\ NavOnly
    \/ \E query \in Queries : writeQuery(query) /\ NavOnly
    \/ routerDisconnect /\ NavOnly

SpecNav == NavStart /\ [][NavNext]_vars

\* The redirect of the route with pattern p names a route of the table other
\* than that route.
TargetRegistered(routes, p) ==
    /\ routes[p] \in Patterns
    /\ routes[p] # p
    /\ routes[routes[p]] # "absent"

RedirectingRoutes(routes) == {p \in Patterns : routes[p] \in Targets}

\* C14: the setup of the router store returns when the target of every
\* string redirect matches another registered route, and throws when the
\* target of some redirect matches none; a store whose setup threw has
\* handled no location.
RouterSetupValidatesRedirects ==
    /\ nav.phase \in {"ready", "connected", "disconnected"} =>
          \A p \in RedirectingRoutes(nav.routes) : TargetRegistered(nav.routes, p)
    /\ nav.phase = "threw" =>
          /\ \E p \in RedirectingRoutes(nav.routes) : ~TargetRegistered(nav.routes, p)
          /\ ~nav.listening
          /\ nav.lastQuery = "undefined"
          /\ nav.pattern = "null" /\ nav.path = ""

\* /a redirects to the registered /b: the setup returned, and a location
\* change to /a was redirected and settled on /b.
RouterRedirectFollowed ==
    /\ nav.routes["/a"] = "/b" /\ nav.routes["/b"] = "plain"
    /\ nav.last.op = "deliver" /\ nav.last.cause = "redirect"
    /\ nav.pattern = "/b" /\ nav.path = "/b"
    /\ nav.pending = <<>>

\* /a and /b redirect to each other.
RedirectCycle(routes) == routes["/a"] = "/b" /\ routes["/b"] = "/a"

\* C15: a table in which /a redirects to /b and /b to /a passes the setup,
\* and while the history is at /a or /b and the listener is registered a
\* history.replace of a redirect is always owed: the listener never settles,
\* and neither pattern is ever published.
RouterRedirectCycleNeverSettles ==
    RedirectCycle(nav.routes) =>
        /\ nav.phase # "threw"
        /\ (nav.listening /\ nav.location.pathname \in {"/a", "/b"}) =>
              /\ nav.pending # <<>>
              /\ \A i \in 1..Len(nav.pending) : nav.pending[i].cause = "redirect"
        /\ nav.pattern \notin {"/a", "/b"}
        /\ nav.path \notin {"/a", "/b"}

\* A location change to /a on the cyclic table has gone round: /a, /b, /a
\* were handled and the next replace is owed, while the pattern published
\* before the change still stands.
RouterRedirectCycleWentRound ==
    /\ RedirectCycle(nav.routes)
    /\ nav.hops = MaxHops
    /\ nav.last.op = "deliver" /\ nav.last.cause = "redirect"
    /\ nav.pending # <<>>
    /\ nav.pattern = "/c"

RouterStopsListening ==
    nav.phase = "disconnected" =>
        /\ ~nav.last.handled
        /\ [pattern |-> nav.pattern, path |-> nav.path, query |-> nav.query] = nav.atDisconnect

\* C37: when the router store connects at a location whose query string is
\* not empty, the start of the observer of $$query and the first call of the
\* listener leave the query string of the location as it was, and $$query
\* then holds the parameters parsed from it.
RouterConnectKeepsQuery ==
    [][(nav'.last.op = "connect" /\ nav.location.search \notin {"", "?"}) =>
          /\ nav'.location.search = nav.location.search
          /\ nav'.query = ParseQuery(nav.location.search)]_vars

(***************************************************************************)
(* state(), state.immut, state.map: a value with listeners                 *)
(* src/packages/client/src/elements/text.ts, lines 327-449                 *)
(***************************************************************************)
\* Most listener functions subscribed to one state in one run.
MaxListeners == 3

\* The values a state is made with and set to.
Values == {0, 1}

\* The value a listener of behaviour "sets" gives the state.
SetsTo == CHOOSE v \in Values : \A w \in Values : w <= v

\* What a listener does when it is called: nothing more ("plain"), call the
\* function its subscription returned ("stops"), call the cancel function it
\* is passed ("cancels"), call the state with a value ("sets"); "mapped" is
\* the listener that a subscription to the mapped state gives the source.
Behaviours == {"plain", "stops", "cancels", "sets", "mapped"}

\* The transforms of the mapped state; a transform answers <<t>>, or <<>>
\* for undefined. The first is total, the others are made by state.filter.
Transforms ==
    { [v \in Values |-> <<1 - v>>],
      [v \in Values |-> IF v = 1 THEN <<v>> ELSE <<>>],
      [v \in Values |-> IF v = 0 THEN <<v>> ELSE <<>>] }

\* listeners is the array of the source; made counts the listener functions
\* subscribed so far, which are numbered from 1, and behaviour says what each
\* does. subscribed holds the listeners that were subscribed and have not
\* asked to be removed. immutable is options.immutable; transform and stored
\* belong to the state mapped from this one (<<>> for undefined).
CellNew(initialValue, immutable, transform) ==
    [ value      |-> initialValue,
      listeners  |-> <<>>,
      isInnerSet |-> FALSE,
      immutable  |-> immutable,
      transform  |-> transform,
      stored     |-> <<>>,
      made       |-> 0,
      behaviour  |-> [i \in 1..0 |-> "plain"],
      subscribed |-> {},
      calls      |-> <<>>,
      threw      |-> FALSE,
      nested     |-> FALSE,
      breached   |-> FALSE,
      last       |-> [op |-> "init", arg |-> initialValue, value |-> initialValue,
                      subscribed |-> {}, calls |-> <<>>, threw |-> FALSE,
                      nested |-> FALSE, breached |-> FALSE, result |-> <<>>,
                      stored |-> <<>>] ]

CellInit ==
    \E initialValue \in Values, immutable \in BOOLEAN, transform \in Transforms :
        cell = CellNew(initialValue, immutable, transform)

\* listeners.indexOf(arg), counted from 1; 0 stands for -1.
IndexOf(listeners, arg) ==
    IF \E i \in 1..Len(listeners) : listeners[i] = arg
    THEN CHOOSE i \in 1..Len(listeners) :
            listeners[i] = arg /\ \A j \in 1..i - 1 : listeners[j] # arg
    ELSE 0

\* listeners.splice(index, 1); an index of -1 counts from the end.
Splice(listeners, index) ==
    LET at == IF index = 0 THEN Len(listeners) ELSE index IN
    [i \in 1..Len(listeners) - (IF listeners = <<>> THEN 0 ELSE 1) |->
        IF i < at THEN listeners[i] ELSE listeners[i + 1]]

\* return function () { listeners.splice(listeners.indexOf(arg), 1); }
Unsubscribe(listeners, arg) == Splice(listeners, IndexOf(listeners, arg))

\* const t = transform(value); if (t !== undefined) { stored = t; ... }
Store(c, value) == IF c.transform[value] # <<>> THEN c.transform[value] ELSE c.stored

\* if (!isInnerSet && options.immutable)
Refuses(c) == ~c.isInnerSet /\ c.immutable

\* if (arg !== value)
Differs(c, arg) == arg # c.value

\* listeners.push(arg)
Push(listeners, arg) == Append(listeners, arg)

\* instance(arg) with a value, and the loop it runs:
\*   for (const listener of listeners) { listener(value, () => { ... }) }
\* c carries the variables of the state and the log of the calls; depth is 1
\* for a call from outside and 2 for a call made by a listener. iter is the
\* array the loop walks and same says that the variable listeners still
\* holds that array: the filter that ends a loop assigns a new one.
RECURSIVE instance(_, _, _), Notify(_, _, _, _, _, _)
instance(c, arg, depth) ==
    IF Refuses(c) THEN [c EXCEPT !.threw = TRUE]
    ELSE LET c0 == [c EXCEPT !.breached = @ \/ (depth > 1 /\ c.immutable),
                             !.nested = @ \/ (depth > 1 /\ arg # c.value)]
         IN  IF ~Differs(c0, arg) THEN [c0 EXCEPT !.isInnerSet = FALSE]
             ELSE LET n == Notify([c0 EXCEPT !.value = arg], c0.listeners, TRUE, 1, {}, depth)
                  IN  IF n.c.threw THEN n.c
                      ELSE [n.c EXCEPT
                              !.listeners = SelectSeq(@, LAMBDA x : x \notin n.cancelled),
                              !.isInnerSet = FALSE]

Notify(c, iter, same, i, cancelled, depth) ==
    IF i > Len(iter) THEN [c |-> c, cancelled |-> cancelled]
    ELSE LET listener == iter[i]
             b == c.behaviour[listener]
             called == [c EXCEPT !.calls = Append(@, <<listener, c.value, depth>>)]
         IN  CASE b = "plain" -> Notify(called, iter, same, i + 1, cancelled, depth)
               [] b = "stops" ->
                     LET cur == Unsubscribe(called.listeners, listener) IN
                     Notify([called EXCEPT !.listeners = cur, !.subscribed = @ \ {listener}],
                            IF same THEN cur ELSE iter, same, i + 1, cancelled, depth)
               [] b = "cancels" ->
                     Notify([called EXCEPT !.subscribed = @ \ {listener}],
                            iter, same, i + 1, cancelled \cup {listener}, depth)
               [] b = "mapped" ->
                     Notify([called EXCEPT !.stored = Store(called, called.value)],
                            iter, same, i + 1, cancelled, depth)
               [] b = "sets" ->
                     LET r == instance(called, SetsTo, depth + 1) IN
                     IF r.threw THEN [c |-> r, cancelled |-> cancelled]
                     ELSE Notify(r, iter, same /\ ~Differs(called, SetsTo),
                                 i + 1, cancelled, depth)

\* The record of the call that just returned or threw.
CellLast(c, op, arg, result) ==
    [c EXCEPT !.calls = <<>>, !.threw = FALSE, !.nested = FALSE, !.breached = FALSE,
              !.last = [op |-> op, arg |-> arg, value |-> cell.value,
                        subscribed |-> cell.subscribed, calls |-> c.calls,
                        threw |-> c.threw, nested |-> c.nested, breached |-> c.breached,
                        result |-> result, stored |-> cell.stored]]

\* instance(arg) with a function: the function becomes a listener. With
\* behaviour "mapped" the call is the one a subscription to the mapped state
\* makes on its source.
subscribe(b) ==
    /\ cell.made < MaxListeners
    /\ LET arg == cell.made + 1 IN
       cell' = CellLast([cell EXCEPT
                            !.made = arg,
                            !.behaviour = [i \in 1..arg |-> IF i = arg THEN b ELSE @[i]],
                            !.listeners = Push(@, arg),
                            !.subscribed = @ \cup {arg}],
                        "subscribe", arg, <<>>)

\* The function returned to the subscriber of arg is called, outside of any
\* listener.
cancel(arg) ==
    /\ arg \in 1..cell.made
    /\ cell' = CellLast([cell EXCEPT !.listeners = Unsubscribe(@, arg),
                                     !.subscribed = @ \ {arg}],
                        "cancel", arg, <<>>)

\* instance(arg) with a value, called from outside.
set(arg) == cell' = CellLast(instance(cell, arg, 1), "set", arg, <<>>)

\* instance[method](...args), for a method that answers newValue.
method(newValue) ==
    cell' = CellLast(instance([cell EXCEPT !.isInnerSet = TRUE], newValue, 1),
                     "method", newValue, <<>>)

\* The mapped state is called without argument.
readMapped ==
    LET stored == Store(cell, cell.value) IN
    cell' = CellLast([cell EXCEPT !.stored = stored], "read", cell.value, stored)

\* The mapped state is called with a value:
\*   throw new Error(`Read only state cannot be set. ...`)
setMapped(arg) == cell' = CellLast([cell EXCEPT !.threw = TRUE], "setMapped", arg, <<>>)

\* The other subsystems are idle in the state's specification.
CellOnly == UNCHANGED <<view, router, map, rebuild, spring, store, scope, nav, dialog, bundle, service, collector, label, motion, outlet>>

CellStart == CellInit /\ view = Off /\ router = Off /\ map = Off /\ rebuild = Off
    /\ spring = Off /\ store = Off /\ scope = Off /\ nav = Off /\ dialog = Off /\ bundle = Off
    /\ service = Off /\ collector = Off /\ label = Off /\ motion = Off /\ outlet = Off

CellNext ==
    \/ \E b \in Behaviours : subscribe(b) /\ CellOnly
    \/ \E arg \in 1..MaxListeners : cancel(arg) /\ CellOnly
    \/ \E arg \in Values : set(arg) /\ CellOnly
    \/ \E newValue \in Values : method(newValue) /\ CellOnly
    \/ readMapped /\ CellOnly
    \/ \E arg \in Values : setMapped(arg) /\ CellOnly

SpecCell == CellStart /\ [][CellNext]_vars

\* C19: on a state that takes direct calls, a call with the current value
\* calls no listener and leaves the value; a call with another value makes it
\* the value and calls every subscribed listener exactly once with it, and no
\* other function (stated for the calls during which no listener set the
\* state).
StateSetNotifiesEachOnce ==
    LET l == cell.last IN
    (l.op = "set" /\ ~l.threw /\ ~l.nested) =>
        IF l.arg = l.value
        THEN l.calls = <<>> /\ cell.value = l.value
        ELSE /\ cell.value = l.arg
             /\ \A x \in l.subscribed :
                   Cardinality({i \in 1..Len(l.calls) : l.calls[i] = <<x, l.arg, 1>>}) = 1
             /\ \A i \in 1..Len(l.calls) : l.calls[i][1] \in l.subscribed

\* C20: a subscription calls the new listener once, with the current value,
\* before it returns.
StateSubscribeReplaysValue ==
    cell.last.op = "subscribe" => cell.last.calls = <<<<cell.last.arg, cell.value, 1>>>>

\* The listeners one loop called, in the order of the calls: the loop of the
\* call from outside has depth 1, the loop of a set made by a listener 2.
CalledAt(calls, depth) ==
    LET at == SelectSeq(calls, LAMBDA call : call[3] = depth) IN
    [i \in 1..Len(at) |-> at[i][1]]

\* Listeners are numbered as they subscribe.
InSubscriptionOrder(called) ==
    \A i, j \in 1..Len(called) : i < j => called[i] < called[j]

\* C21: within one set the listeners are called first subscribed, first
\* called, in the loop of the set and in the loop of a set that a listener
\* makes meanwhile; and when a listener has set the state, every listener
\* subscribed before and after the call has been called with the value the
\* state holds when the outer call returns.
StateNotifiesInSubscriptionOrder ==
    LET l == cell.last IN
    (l.op \in {"set", "method"} /\ ~l.threw) =>
        /\ InSubscriptionOrder(CalledAt(l.calls, 1))
        /\ InSubscriptionOrder(CalledAt(l.calls, 2))
        /\ l.nested =>
              \A x \in l.subscribed \cap cell.subscribed :
                  \E i \in 1..Len(l.calls) : l.calls[i][1] = x /\ l.calls[i][2] = cell.value

\* C22: a read of the mapped state answers the transform of the value its
\* source holds now (nothing, where the transform answers undefined),
\* whatever the source held before and whenever the mapped state was read
\* before.
StateMapReadsTransform ==
    cell.last.op = "read" => cell.last.result = cell.transform[cell.value]

\* C23: a call with a value on the mapped state throws and leaves the value;
\* so does a call with a value on an immutable state, from outside and from
\* a listener that runs while a method's update is being notified.
StateReadOnlyRefusesDirectSet ==
    LET l == cell.last IN
    /\ l.op = "setMapped" => l.threw /\ cell.value = l.value
    /\ (cell.immutable /\ l.op = "set") => l.threw /\ cell.value = l.value
    /\ cell.immutable => ~l.breached

\* C40: calling the function a subscription returned once more, after the
\* listener has been removed by an earlier call of it or by the cancel
\* function passed to the listener, removes no listener: the listeners of
\* the state, and so the listeners every later change notifies, stay as they
\* were.
StateCancelIsIdempotent ==
    [][(cell'.last.op = "cancel"
          /\ \A i \in 1..Len(cell.listeners) : cell.listeners[i] # cell'.last.arg)
        => cell'.listeners = cell.listeners]_vars

(***************************************************************************)
(* DialogStore: the stack of open dialogs and the container that shows it  *)
(*                                                                         *)
(* src/packages/browser/src/core/helpers/merge.ts, lines 37-139. The       *)
(* writable $$dialogs holds the stack; its observer requests one animation *)
(* frame per change, and the frame's callback diffs the stack it was given *)
(* against activeDialogs. Dialogs are numbered in the order of the open()  *)
(* calls. A writable calls its observers at once when observed and then on *)
(* every change of its value.                                              *)
(***************************************************************************)
MaxDialogs == 3
MaxFrames == 3

DialogInit ==
    dialog = [ dialogs |-> <<>>,
               activeDialogs |-> <<>>,
               childNodes |-> <<>>,
               parentNode |-> FALSE,
               frames |-> <<<<>>>>,
               instance |-> <<>>,
               open |-> <<>>,
               observing |-> <<>>,
               connected |-> TRUE,
               last |-> [op |-> "init", arg |-> 0, dialogs |-> <<>>] ]

Includes(handles, x) == \E i \in 1..Len(handles) : handles[i] = x

\* Mutant: the last dialog of the stack is taken off, whichever was closed.
FilterLast(current, handle) ==
    IF handle = <<>> \/ current = <<>> THEN current ELSE SubSeq(current, 1, Len(current) - 1)

\* current.filter((x) => x !== instance), where the variable instance holds
\* the handle or nothing
Filter(current, handle) == SelectSeq(current, LAMBDA x : <<x>> # handle)

\* $$dialogs.update(...): the function given answers a new array, so the
\* writable notifies; the observer of the store runs while the store is
\* connected, and requests a frame for the stack it is called with.
Update(d, current) ==
    [d EXCEPT !.dialogs = current,
              !.frames = IF d.connected THEN Append(@, current) ELSE @]

closeDialog(d, id) ==
    LET updated == Update(d, Filter(d.dialogs, IF d.instance[id] THEN <<id>> ELSE <<>>)) IN
    [updated EXCEPT !.instance[id] = FALSE, !.observing[id] = FALSE]

\* The dialogs the frame's callback disconnects and connects.
DialogsRemoved(activeDialogs, dialogs) ==
    SelectSeq(activeDialogs, LAMBDA x : ~Includes(dialogs, x))
\* Mutant: the frame connects nothing.
DialogsAddedNever(activeDialogs, dialogs) == SubSeq(dialogs, 1, 0)

DialogsAdded(activeDialogs, dialogs) ==
    SelectSeq(dialogs, LAMBDA x : ~Includes(activeDialogs, x))

DialogLast(d, op, arg) ==
    [d EXCEPT !.last = [op |-> op, arg |-> arg, dialogs |-> dialog.dialogs]]

\* open(view, props)
open ==
    /\ Len(dialog.instance) < MaxDialogs
    /\ Len(dialog.frames) < MaxFrames
    /\ LET id == Len(dialog.instance) + 1
           made == [dialog EXCEPT !.instance = Append(@, TRUE),
                                  !.open = Append(@, TRUE),
                                  !.observing = Append(@, FALSE)]
           updated == Update(made, made.dialogs \o <<id>>)
       IN  dialog' = DialogLast([updated EXCEPT !.observing[id] = TRUE], "open", id)

\* The function open() returned for dialog id is called.
close(id) ==
    /\ id \in 1..Len(dialog.instance)
    /\ Len(dialog.frames) < MaxFrames
    /\ dialog' = DialogLast(closeDialog(dialog, id), "close", id)

\* The view of dialog id, or its creator, writes its $$open.
setOpen(id, value) ==
    /\ id \in 1..Len(dialog.instance)
    /\ Len(dialog.frames) < MaxFrames
    /\ LET written == [dialog EXCEPT !.open[id] = value] IN
       dialog' = DialogLast(IF value # dialog.open[id] /\ dialog.observing[id] /\ ~value
                            THEN closeDialog(written, id)
                            ELSE written,
                            "setOpen", id)

\* The oldest requested frame arrives: the callback of lines 60-96 for the
\* stack the observer was called with.
dialogFrame ==
    /\ dialog.frames # <<>>
    /\ LET dialogs == Head(dialog.frames)
           removed == DialogsRemoved(dialog.activeDialogs, dialogs)
           added == DialogsAdded(dialog.activeDialogs, dialogs)
           kept == SelectSeq(dialog.activeDialogs, LAMBDA x : ~Includes(removed, x))
           shown == SelectSeq(dialog.childNodes, LAMBDA x : ~Includes(removed, x))
           activeDialogs == kept \o added
       IN  dialog' = DialogLast([dialog EXCEPT
                                    !.frames = Tail(@),
                                    !.activeDialogs = activeDialogs,
                                    !.childNodes = shown \o added,
                                    !.parentNode = Len(activeDialogs) > 0],
                                "frame", 0)

\* c.onDisconnected: the store is disconnected and its observer stops.
dialogDisconnected ==
    /\ dialog.connected
    /\ dialog' = DialogLast([dialog EXCEPT !.connected = FALSE, !.parentNode = FALSE],
                            "disconnected", 0)

\* The other subsystems are idle in the dialog store's specification.
DialogOnly == UNCHANGED <<view, router, map, rebuild, spring, store, scope, nav, cell, bundle, service, collector, label, motion, outlet>>

DialogStart == DialogInit /\ view = Off /\ router = Off /\ map = Off /\ rebuild = Off
    /\ spring = Off /\ store = Off /\ scope = Off /\ nav = Off /\ cell = Off /\ bundle = Off
    /\ service = Off /\ collector = Off /\ label = Off /\ motion = Off /\ outlet = Off

DialogNext ==
    \/ open /\ DialogOnly
    \/ \E id \in 1..MaxDialogs : close(id) /\ DialogOnly
    \/ \E id \in 1..MaxDialogs, value \in BOOLEAN : setOpen(id, value) /\ DialogOnly
    \/ dialogFrame /\ DialogOnly
    \/ dialogDisconnected /\ DialogOnly

SpecDialog == DialogStart /\ [][DialogNext]_vars

\* C24: open() puts exactly one new dialog at the end of the stack; the
\* function it returned, and writing false to the dialog's $$open, take
\* exactly that dialog off the stack, leave the others in place and in order,
\* and stop the subscription to $$open.
DialogOpenCloseExact ==
    LET l == dialog.last
        closes == \/ l.op = "close"
                  \/ l.op = "setOpen" /\ ~dialog.open[l.arg]
    IN  /\ l.op = "open" => dialog.dialogs = l.dialogs \o <<l.arg>> /\ ~Includes(l.dialogs, l.arg)
        /\ closes =>
              /\ dialog.dialogs = SelectSeq(l.dialogs, LAMBDA x : x # l.arg)
              /\ Len(dialog.dialogs) >= Len(l.dialogs) - 1
              /\ ~dialog.observing[l.arg]

\* A dialog between two others was closed.
DialogClosedInTheMiddle ==
    LET l == dialog.last IN
    /\ l.op \in {"close", "setOpen"}
    /\ Len(l.dialogs) >= 3
    /\ Len(dialog.dialogs) = Len(l.dialogs) - 1
    /\ l.arg = l.dialogs[2]

\* C25: while the store is connected and no frame is requested, the dialogs
\* connected in the container are the dialogs of the stack, in the order of
\* the stack, and the container is in document.body exactly when the stack is
\* not empty.
DialogContainerFollowsStack ==
    (dialog.connected /\ dialog.frames = <<>>) =>
        /\ dialog.childNodes = dialog.dialogs
        /\ dialog.parentNode = (dialog.dialogs # <<>>)

\* Dialogs were opened and closed between frames, and the frames caught up
\* with a stack that is not empty.
DialogFramesCaughtUp ==
    /\ dialog.connected /\ dialog.frames = <<>>
    /\ dialog.last.op = "frame"
    /\ Len(dialog.dialogs) >= 2
    /\ Len(dialog.instance) > Len(dialog.dialogs)

(***************************************************************************)
(* watch: client builds and the /_bundle event stream of the dev proxy     *)
(*                                                                         *)
(* src/unnamed/part_003, lines 129-178 and 237-255. watch() awaits a first *)
(* buildClient() and creates the proxy afterwards; the debounced trigger   *)
(* runs buildClient() again, one run at a time, and may already do so      *)
(* while the first build is awaited. Every /_bundle response registers a   *)
(* listener of "client built" until the response closes.                   *)
(***************************************************************************)
MaxBuilds == 4
MaxConnections == 2

Retry == "retry: 10000\n\n"
TimeToReload == "data: time to reload\n\n"

\* A build ends well, or esbuild rejects, or updateClientFiles rejects.
BuildOutcomes == {"built", "esbuild rejects", "files reject"}

BundleInit ==
    bundle = [ clientBundle |-> FALSE,
               first |-> "awaited",
               triggered |-> "idle",
               builds |-> 1,
               listening |-> FALSE,
               responses |-> <<>>,
               listeners |-> <<>>,
               last |-> [op |-> "init"] ]

\* Mutant: the event is emitted after the catch as well.
EmitsAlways(outcome) == TRUE

\* The try block reaches events.emit("client built").
Emits(outcome) == outcome = "built"

\* events.emit("client built"): update() of every registered listener
\* writes to its response.
Emit(responses, listeners) ==
    [id \in 1..Len(responses) |->
        IF \E i \in 1..Len(listeners) : listeners[i] = id
        THEN [responses[id] EXCEPT !.written = Append(@, TimeToReload)]
        ELSE responses[id]]

\* What the completion of a build observes: every response open at that
\* moment counts the build when it ended well.
Counted(responses, outcome) ==
    [id \in 1..Len(responses) |->
        IF responses[id].open /\ outcome = "built"
        THEN [responses[id] EXCEPT !.built = @ + 1]
        ELSE responses[id]]

\* buildClient() from its await to its end. how is "build" when the call
\* found no clientBundle and "rebuild" when it found one.
Completes(b, how, outcome) ==
    [b EXCEPT !.clientBundle = @ \/ (how = "build" /\ outcome # "esbuild rejects"),
              !.responses = Counted(IF Emits(outcome) THEN Emit(@, b.listeners) ELSE @, outcome)]

\* The first call of buildClient(), awaited by watch(), ends.
firstBuildCompletes(outcome) ==
    /\ bundle.first = "awaited"
    /\ bundle' = [Completes(bundle, "build", outcome) EXCEPT
                     !.first = "done", !.last = [op |-> "first"]]

\* watch() goes on after its await and the proxy listens.
listen ==
    /\ bundle.first = "done"
    /\ ~bundle.listening
    /\ bundle' = [bundle EXCEPT !.listening = TRUE, !.last = [op |-> "listen"]]

\* The trigger runs buildClient() up to its await.
buildClient ==
    /\ bundle.triggered = "idle"
    /\ bundle.builds < MaxBuilds
    /\ bundle' = [bundle EXCEPT
                     !.triggered = IF bundle.clientBundle THEN "rebuild" ELSE "build",
                     !.builds = @ + 1,
                     !.last = [op |-> "buildClient"]]

\* The triggered run ends.
buildClientCompletes(outcome) ==
    /\ bundle.triggered # "idle"
    /\ bundle' = [Completes(bundle, bundle.triggered, outcome) EXCEPT
                     !.triggered = "idle", !.last = [op |-> "completes"]]

\* GET /_bundle
bundleRequest ==
    /\ bundle.listening
    /\ Len(bundle.responses) < MaxConnections
    /\ bundle' = [bundle EXCEPT
                     !.responses = Append(@, [written |-> <<Retry>>, open |-> TRUE, built |-> 0]),
                     !.listeners = Append(@, Len(bundle.responses) + 1),
                     !.last = [op |-> "request"]]

\* res.on("close", ...)
responseCloses(id) ==
    /\ id \in 1..Len(bundle.responses)
    /\ bundle.responses[id].open
    /\ bundle' = [bundle EXCEPT
                     !.responses[id].open = FALSE,
                     !.listeners = SelectSeq(@, LAMBDA x : x # id),
                     !.last = [op |-> "close"]]

\* The other subsystems are idle in the specification of the event stream.
BundleOnly == UNCHANGED <<view, router, map, rebuild, spring, store, scope, nav, cell, dialog, service, collector, label, motion, outlet>>

BundleStart == BundleInit /\ view = Off /\ router = Off /\ map = Off /\ rebuild = Off
    /\ spring = Off /\ store = Off /\ scope = Off /\ nav = Off /\ cell = Off /\ dialog = Off
    /\ service = Off /\ collector = Off /\ label = Off /\ motion = Off /\ outlet = Off

BundleNext ==
    \/ \E outcome \in BuildOutcomes : firstBuildCompletes(outcome) /\ BundleOnly
    \/ listen /\ BundleOnly
    \/ buildClient /\ BundleOnly
    \/ \E outcome \in BuildOutcomes : buildClientCompletes(outcome) /\ BundleOnly
    \/ bundleRequest /\ BundleOnly
    \/ \E id \in 1..MaxConnections : responseCloses(id) /\ BundleOnly

SpecBundle == BundleStart /\ [][BundleNext]_vars

\* C26: what has been written to a /_bundle response is the retry directive
\* followed by one "time to reload" message for each client build that ended
\* well while the response was open, and nothing else; a closed response has
\* no listener left.
BundleStreamFollowsBuilds ==
    \A id \in 1..Len(bundle.responses) :
        LET res == bundle.responses[id] IN
        /\ res.written = <<Retry>> \o [i \in 1..res.built |-> TimeToReload]
        /\ ~res.open => \A i \in 1..Len(bundle.listeners) : bundle.listeners[i] # id

\* A response was open through a build that failed and one that ended well,
\* and it is closed now; another one is still open.
BundleReloadedOnce ==
    /\ Len(bundle.responses) = 2
    /\ ~bundle.responses[1].open /\ bundle.responses[2].open
    /\ bundle.responses[1].built = 1
    /\ bundle.responses[2].built = 0
    /\ bundle.builds = MaxBuilds
    /\ bundle.triggered = "idle"

\* C38: no two executions of buildClient overlap: while the first build,
\* awaited by watch(), is running, the trigger starts no other build.
BundleBuildsNeverOverlap ==
    ~(bundle.first = "awaited" /\ bundle.triggered # "idle")

(***************************************************************************)
(* initService and Store.#initialize: what a setup function returns, and   *)
(* the lifecycle hooks of a service                                        *)
(*                                                                         *)
(* src/packages/client/src/helpers/initService.js, lines 3-53, and         *)
(* src/unnamed/part_006, lines 340-344. The setup function registers       *)
(* callbacks through ctx.beforeConnect and ctx.afterConnect and returns a  *)
(* value; a callback may itself register a further callback when it runs.  *)
(***************************************************************************)
MaxHooks == 2
MaxConnects == 2

\* The values a setup function returns here, with what typeof, == null and
\* Array.isArray answer for each.
Returnable ==
    { [is |-> "null",      typeof |-> "object",    nullish |-> TRUE,  isArray |-> FALSE],
      [is |-> "undefined", typeof |-> "undefined", nullish |-> TRUE,  isArray |-> FALSE],
      [is |-> "string",    typeof |-> "string",    nullish |-> FALSE, isArray |-> FALSE],
      [is |-> "number",    typeof |-> "number",    nullish |-> FALSE, isArray |-> FALSE],
      [is |-> "function",  typeof |-> "function",  nullish |-> FALSE, isArray |-> FALSE],
      [is |-> "array",     typeof |-> "object",    nullish |-> FALSE, isArray |-> TRUE],
      [is |-> "object",    typeof |-> "object",    nullish |-> FALSE, isArray |-> FALSE] }

\* What a registered callback does when called: nothing that matters here,
\* or ctx.beforeConnect(...) or ctx.afterConnect(...) with a new callback.
Does == {"plain", "beforeConnect", "afterConnect"}

\* isObject of helpers/typeChecking.js
isObject(value) == ~value.nullish /\ value.typeof = "object" /\ ~value.isArray

\* Mutant: only typeof is tested.
OutputsValidTypeof(outputs) == outputs.typeof = "object"

\* outputs != null && typeof outputs === "object" && !Array.isArray(outputs)
OutputsValid(outputs) == ~outputs.nullish /\ outputs.typeof = "object" /\ ~outputs.isArray

\* made is "service" for initService and "store" for Store.#initialize; fn
\* describes the setup function: the callbacks it registers and the value it
\* returns.
ServiceInit ==
    \E made \in {"service", "store"}, returns \in Returnable,
       before \in UNION {[1..n -> Does] : n \in 0..MaxHooks},
       after \in UNION {[1..n -> Does] : n \in 0..MaxHooks} :
        service = [ made |-> made,
                    fn |-> [before |-> IF made = "service" THEN before ELSE <<>>,
                            after |-> IF made = "service" THEN after ELSE <<>>,
                            returns |-> returns],
                    onBeforeConnect |-> <<>>,
                    onAfterConnect |-> <<>>,
                    setups |-> 0,
                    instance |-> FALSE,
                    exports |-> <<>>,
                    connects |-> 0,
                    last |-> [op |-> "none", threw |-> FALSE, calls |-> <<>>,
                              onBeforeConnect |-> <<>>, onAfterConnect |-> <<>>] ]

\* Mutant: a hook walks the callbacks of both kinds.
CallbacksOfBoth(s, hook) == s.onBeforeConnect \o s.onAfterConnect

\* The array a hook of the service walks.
Callbacks(s, hook) == IF hook = "beforeConnect" THEN s.onBeforeConnect ELSE s.onAfterConnect

\* ctx.beforeConnect(callback) / ctx.afterConnect(callback)
Register(s, hook, does) ==
    IF hook = "beforeConnect"
    THEN [s EXCEPT !.onBeforeConnect = Append(@, [id |-> <<hook, Len(@) + 1>>, does |-> does])]
    ELSE [s EXCEPT !.onAfterConnect = Append(@, [id |-> <<hook, Len(@) + 1>>, does |-> does])]

RECURSIVE RegisterAll(_, _, _, _)
RegisterAll(s, hook, does, i) ==
    IF i > Len(does) THEN s
    ELSE RegisterAll(Register(s, hook, does[i]), hook, does, i + 1)

\* for (const callback of onBeforeConnect) { callback() }, and the same for
\* onAfterConnect: the loop walks the array the callbacks push on.
RECURSIVE RunCallbacks(_, _, _, _)
RunCallbacks(s, hook, i, calls) ==
    IF i > Len(Callbacks(s, hook)) THEN [s |-> s, calls |-> calls]
    ELSE LET callback == Callbacks(s, hook)[i] IN
         RunCallbacks(IF callback.does = "plain" THEN s
                      ELSE Register(s, callback.does, "plain"),
                      hook, i + 1, Append(calls, callback.id))

ServiceLast(s, op, threw, calls) ==
    [s EXCEPT !.last = [op |-> op, threw |-> threw, calls |-> calls,
                        onBeforeConnect |-> service.onBeforeConnect,
                        onAfterConnect |-> service.onAfterConnect]]

\* initService(appContext, fn, debug, config)
initService ==
    /\ service.made = "service"
    /\ service.setups = 0
    /\ LET ran == RegisterAll(RegisterAll([service EXCEPT !.setups = @ + 1],
                                          "beforeConnect", service.fn.before, 1),
                              "afterConnect", service.fn.after, 1)
       IN  IF ~isObject(service.fn.returns)
           THEN service' = ServiceLast(ran, "init", TRUE, <<>>)
           ELSE service' = ServiceLast([ran EXCEPT !.instance = TRUE,
                                                   !.exports = <<service.fn.returns>>],
                                       "init", FALSE, <<>>)

\* Store.#initialize, from the value setup returned to this.outputs.
storeInitialize ==
    /\ service.made = "store"
    /\ service.setups = 0
    /\ LET ran == [service EXCEPT !.setups = @ + 1] IN
       IF ~OutputsValid(service.fn.returns)
       THEN service' = ServiceLast(ran, "init", TRUE, <<>>)
       ELSE service' = ServiceLast([ran EXCEPT !.instance = TRUE,
                                               !.exports = <<service.fn.returns>>],
                                   "init", FALSE, <<>>)

\* service.beforeConnect() / service.afterConnect()
serviceHook(hook) ==
    /\ service.made = "service"
    /\ service.instance
    /\ service.connects < MaxConnects
    /\ LET ran == RunCallbacks(service, hook, 1, <<>>) IN
       service' = ServiceLast([ran.s EXCEPT !.connects = @ + 1], hook, FALSE, ran.calls)

\* The other subsystems are idle in the specification of the services.
ServiceOnly ==
    UNCHANGED <<view, router, map, rebuild, spring, store, scope, nav, cell, dialog, bundle, collector, label, motion, outlet>>

ServiceStart == ServiceInit /\ view = Off /\ router = Off /\ map = Off /\ rebuild = Off
    /\ spring = Off /\ store = Off /\ scope = Off /\ nav = Off /\ cell = Off /\ dialog = Off
    /\ bundle = Off /\ collector = Off /\ label = Off /\ motion = Off /\ outlet = Off

ServiceNext ==
    \/ initService /\ ServiceOnly
    \/ storeInitialize /\ ServiceOnly
    \/ \E hook \in {"beforeConnect", "afterConnect"} : serviceHook(hook) /\ ServiceOnly

SpecService == ServiceStart /\ [][ServiceNext]_vars

\* C27: the initialisation of a service or of a store throws and leaves no
\* instance when the setup function returned null, undefined, a string, a
\* number, a function or an array; when it returned a plain object the
\* initialisation does not throw and that object is the instance's exports
\* (outputs).
SetupMustReturnObject ==
    service.setups > 0 =>
        IF service.fn.returns.is = "object"
        THEN service.instance /\ service.exports = <<service.fn.returns>>
        ELSE ~service.instance /\ service.exports = <<>>
             /\ (service.last.op = "init" => service.last.threw)

\* A store's setup function returned an array, and the initialisation threw.
SetupReturnedArray ==
    /\ service.made = "store"
    /\ service.last.op = "init" /\ service.last.threw
    /\ service.fn.returns.is = "array"

\* C28: the initialisation calls the setup function once and none of the
\* callbacks it registered; a call of beforeConnect() calls the callbacks
\* registered with ctx.beforeConnect before the call exactly once each, in
\* the order of their registration, and no afterConnect callback; and
\* afterConnect() likewise, with the two kinds exchanged.
ServiceHooksRunOwnCallbacks ==
    LET l == service.last
        registered == IF l.op = "beforeConnect" THEN l.onBeforeConnect ELSE l.onAfterConnect
    IN  /\ l.op = "init" => l.calls = <<>> /\ service.setups = 1
        /\ l.op \in {"beforeConnect", "afterConnect"} =>
              /\ service.setups = 1
              /\ \A i \in 1..Len(l.calls) : l.calls[i][1] = l.op
              /\ Len(l.calls) >= Len(registered)
              /\ \A i \in 1..Len(registered) : l.calls[i] = registered[i].id
              /\ \A i, j \in 1..Len(l.calls) : l.calls[i] = l.calls[j] => i = j

\* beforeConnect() ran two callbacks while afterConnect callbacks were
\* registered too.
ServiceBeforeConnectRan ==
    LET l == service.last IN
    /\ l.op = "beforeConnect"
    /\ Len(l.onBeforeConnect) = 2 /\ Len(l.onAfterConnect) >= 1
    /\ Len(l.calls) >= 2

(***************************************************************************)
(* CrashCollector: onError, error and crash                                *)
(*                                                                         *)
(* src/packages/browser/src/core/classes/CrashCollector.test.ts, lines     *)
(* 5-27, holds the handler and the calls; the class itself is described by *)
(* the specification: onError registers a handler, and error and crash     *)
(* call every handler with a context that carries the severity.            *)
(***************************************************************************)
MaxHandlers == 2
MaxReports == 4

\* The handlers registered here: the one of the test, which disconnects the
\* app on a crash, and one that only reads the context.
Handlers == {"disconnects", "reads"}

CollectorInit ==
    collector = [ handlers |-> <<>>,
                  disconnectApp |-> 0,
                  reports |-> 0,
                  last |-> [op |-> "init", calls |-> <<>>, handlers |-> <<>>, disconnectApp |-> 0] ]

\* Mutant: the handler does not look at the severity.
DisconnectsOnAny(ctx) == TRUE

\* if (ctx.severity === "crash") { disconnectApp() }
Disconnects(ctx) == ctx.severity = "crash"

\* The severity the collector gives to a context.
Severity(op) == IF op = "crash" THEN "crash" ELSE "error"

\* Every registered handler is called with the context, first registered
\* first.
RECURSIVE Report(_, _, _, _)
Report(c, ctx, i, calls) ==
    IF i > Len(c.handlers) THEN [c |-> c, calls |-> calls]
    ELSE Report(IF c.handlers[i] = "disconnects" /\ Disconnects(ctx)
                THEN [c EXCEPT !.disconnectApp = @ + 1] ELSE c,
                ctx, i + 1, Append(calls, <<i, ctx.severity>>))

CollectorLast(c, op, calls) ==
    [c EXCEPT !.last = [op |-> op, calls |-> calls, handlers |-> collector.handlers,
                        disconnectApp |-> collector.disconnectApp]]

\* collector.onError(handler)
onError(h) ==
    /\ Len(collector.handlers) < MaxHandlers
    /\ collector' = CollectorLast([collector EXCEPT !.handlers = Append(@, h)], "onError", <<>>)

\* collector.error({ error, componentName }) and
\* collector.crash({ error, componentName })
report(op) ==
    /\ collector.reports < MaxReports
    /\ LET ctx == [severity |-> Severity(op)]
           reported == Report([collector EXCEPT !.reports = @ + 1], ctx, 1, <<>>)
       IN  collector' = CollectorLast(reported.c, op, reported.calls)

\* The other subsystems are idle in the collector's specification.
CollectorOnly ==
    UNCHANGED <<view, router, map, rebuild, spring, store, scope, nav, cell, dialog, bundle, service, label, motion, outlet>>

CollectorStart == CollectorInit /\ view = Off /\ router = Off /\ map = Off /\ rebuild = Off
    /\ spring = Off /\ store = Off /\ scope = Off /\ nav = Off /\ cell = Off /\ dialog = Off
    /\ bundle = Off /\ service = Off /\ label = Off /\ motion = Off /\ outlet = Off

CollectorNext ==
    \/ \E h \in Handlers : onError(h) /\ CollectorOnly
    \/ \E op \in {"error", "crash"} : report(op) /\ CollectorOnly

SpecCollector == CollectorStart /\ [][CollectorNext]_vars

\* C29: error(...) calls every registered handler once with a severity other
\* than "crash" and crash(...) calls every one once with the severity
\* "crash"; so the handlers that disconnect the app on a crash have
\* disconnected it once each per crash(...) call and never for an error(...)
\* call.
CollectorSeverityReachesHandlers ==
    LET l == collector.last
        disconnecting == {i \in 1..Len(l.handlers) : l.handlers[i] = "disconnects"}
    IN  /\ l.op \in {"error", "crash"} =>
              /\ Len(l.calls) = Len(l.handlers)
              /\ \A i \in 1..Len(l.calls) :
                    /\ l.calls[i][1] = i
                    /\ (l.calls[i][2] = "crash") = (l.op = "crash")
        /\ l.op = "error" => collector.disconnectApp = l.disconnectApp
        /\ l.op = "crash" => collector.disconnectApp = l.disconnectApp + Cardinality(disconnecting)

\* The calls of the test: an error and then a crash, with the handler that
\* disconnects registered; the app has been disconnected once.
CollectorCrashedOnce ==
    /\ collector.last.op = "crash"
    /\ collector.handlers = <<"disconnects">>
    /\ collector.reports = 2
    /\ collector.disconnectApp = 1

(***************************************************************************)
(* sentenceCase and slugCase: the names of the views of a collection       *)
(*                                                                         *)
(* src/packages/view/frame/index.js, lines 210-268. A string is the        *)
(* sequence of its characters; NUL stands for the character "\0".          *)
(***************************************************************************)
MaxLen == 3

NUL == "NUL"
LowerCase == <<"a", "b", "c", "d", "e", "f", "g", "h", "i", "j", "k", "l", "m", "n", "o", "p",
      "q", "r", "s", "t", "u", "v", "w", "x", "y", "z">>
UpperCase == <<"A", "B", "C", "D", "E", "F", "G", "H", "I", "J", "K", "L", "M", "N", "O", "P",
      "Q", "R", "S", "T", "U", "V", "W", "X", "Y", "Z">>
Digits == {"0", "1", "2", "3", "4", "5", "6", "7", "8", "9"}

IsLower(ch) == \E i \in 1..Len(LowerCase) : LowerCase[i] = ch
IsUpper(ch) == \E i \in 1..Len(UpperCase) : UpperCase[i] = ch

toLowerCase(ch) ==
    IF IsUpper(ch) THEN LowerCase[CHOOSE i \in 1..Len(UpperCase) : UpperCase[i] = ch] ELSE ch
toUpperCase(ch) ==
    IF IsLower(ch) THEN UpperCase[CHOOSE i \in 1..Len(LowerCase) : LowerCase[i] = ch] ELSE ch

\* SPLIT_REGEXP is an array of two regular expressions. String.replace takes
\* a pattern that is no regular expression as the string it converts to, and
\* looks for that text.
SPLIT_REGEXP ==
    <<"/", "(", "[", "a", "-", "z", "0", "-", "9", "]", ")", "(", "[", "A", "-", "Z",
      "]", ")", "/", "g", ",", "/", "(", "[", "A", "-", "Z", "]", ")", "(", "[", "A",
      "-", "Z", "]", "[", "a", "-", "z", "]", ")", "/", "g">>

\* "$1\0$2": a pattern that is a string captures nothing, so $1 and $2 stand
\* for themselves.
SplitReplacement == <<"$", "1", NUL, "$", "2">>

\* STRIP_REGEXP = /[^A-Z0-9]+/gi matches the runs of other characters.
IsWordCharacter(ch) == IsLower(ch) \/ IsUpper(ch) \/ ch \in Digits

\* input.replace(pattern, replacement) for a pattern that is a string: the
\* first occurrence is replaced.
Occurs(chars, pattern, at) ==
    /\ at + Len(pattern) - 1 <= Len(chars)
    /\ SubSeq(chars, at, at + Len(pattern) - 1) = pattern
ReplaceString(chars, pattern, replacement) ==
    IF \E at \in 1..Len(chars) : Occurs(chars, pattern, at)
    THEN LET at == CHOOSE a \in 1..Len(chars) :
                      Occurs(chars, pattern, a) /\ \A b \in 1..(a - 1) : ~Occurs(chars, pattern, b)
         IN  SubSeq(chars, 1, at - 1) \o replacement \o SubSeq(chars, at + Len(pattern), Len(chars))
    ELSE chars

\* .replace(STRIP_REGEXP, "\0")
RECURSIVE Strip(_, _)
Strip(chars, i) ==
    IF i > Len(chars) THEN <<>>
    ELSE IF IsWordCharacter(chars[i]) THEN <<chars[i]>> \o Strip(chars, i + 1)
    ELSE IF i > 1 /\ ~IsWordCharacter(chars[i - 1]) THEN Strip(chars, i + 1)
    ELSE <<NUL>> \o Strip(chars, i + 1)

\* while (result.charAt(start) === "\0") start++
RECURSIVE TrimStart(_, _)
TrimStart(result, start) ==
    IF start + 1 <= Len(result) /\ result[start + 1] = NUL THEN TrimStart(result, start + 1)
    ELSE start

\* while (result.charAt(end - 1) === "\0") end--
RECURSIVE TrimEnd(_, _)
TrimEnd(result, end) ==
    IF end >= 1 /\ result[end] = NUL THEN TrimEnd(result, end - 1) ELSE end

\* result.slice(start, end)
Slice(result, start, end) == SubSeq(result, start + 1, end)

\* .split("\0"): the words between the delimiters; the empty string gives
\* one empty word.
RECURSIVE Split(_, _, _)
Split(chars, i, word) ==
    IF i > Len(chars) THEN <<word>>
    ELSE IF chars[i] = NUL THEN <<word>> \o Split(chars, i + 1, <<>>)
    ELSE Split(chars, i + 1, Append(word, chars[i]))

\* .map((word) => word.toLowerCase())
Lowered(words) == [k \in 1..Len(words) |-> [i \in 1..Len(words[k]) |-> toLowerCase(words[k][i])]]

\* .join(separator)
RECURSIVE Join(_, _, _)
Join(words, separator, k) ==
    IF k > Len(words) THEN <<>>
    ELSE (IF k > 1 THEN <<separator>> ELSE <<>>) \o words[k] \o Join(words, separator, k + 1)

\* The lines the two functions share: 217-237 and 245-265.
Tokens(input, separator) ==
    LET result == Strip(ReplaceString(input, SPLIT_REGEXP, SplitReplacement), 1)
        start == TrimStart(result, 0)
        end == TrimEnd(result, Len(result))
    IN  Join(Lowered(Split(Slice(result, start, end), 1, <<>>)), separator, 1)

\* result[0].toUpperCase() + result.slice(1) throws a TypeError on the empty
\* string, where result[0] is undefined.
SentenceCase(input) ==
    LET result == Tokens(input, " ") IN
    IF result = <<>> THEN [threw |-> TRUE, result |-> <<>>]
    ELSE [threw |-> FALSE, result |-> <<toUpperCase(result[1])>> \o Tail(result)]

SlugCase(input) == [threw |-> FALSE, result |-> Tokens(input, "-")]

\* The characters of the short inputs, and the identifiers the
\* specification names.
Alphabet == {"a", "b", "A", "B", "1", "_"}
MyViewName == <<"m", "y", "V", "i", "e", "w", "N", "a", "m", "e">>
HTTPRequestExample == 
    <<"H", "T", "T", "P", "R", "e", "q", "u", "e", "s", "t", "E", "x", "a", "m", "p",
      "l", "e">>
Inputs ==
    UNION {[1..n -> Alphabet] : n \in 0..MaxLen} \cup {MyViewName, HTTPRequestExample}

LabelInit ==
    \E input \in Inputs :
        label = [input |-> input, op |-> "none", threw |-> FALSE, result |-> <<>>,
                 exports |-> "none", collection |-> [path |-> <<>>, views |-> <<>>]]

sentenceCase ==
    /\ label.op # "sentenceCase"
    /\ label' = [label EXCEPT !.op = "sentenceCase",
                              !.threw = SentenceCase(label.input).threw,
                              !.result = SentenceCase(label.input).result]

slugCase ==
    /\ label.op # "slugCase"
    /\ label' = [label EXCEPT !.op = "slugCase",
                              !.threw = SlugCase(label.input).threw,
                              !.result = SlugCase(label.input).result]

\* joinPath(...parts)
RECURSIVE JoinPath(_, _)
JoinPath(parts, k) ==
    IF k > Len(parts) THEN <<>>
    ELSE LET slashed == IF parts[k] # <<>> /\ Head(parts[k]) = "/" THEN parts[k]
                        ELSE <<"/">> \o parts[k]
             part == IF slashed[Len(slashed)] = "/" THEN SubSeq(slashed, 1, Len(slashed) - 1)
                     ELSE slashed
         IN  part \o JoinPath(parts, k + 1)

\* The file of the collection, and what /\.view\.[jt]sx?$/ matches at its
\* end.
RelativePath == <<"a", ".", "v", "i", "e", "w", ".", "j", "s">>
ViewSuffixes ==
    { <<".", "v", "i", "e", "w", ".", "j", "s">>, <<".", "v", "i", "e", "w", ".", "j", "s", "x">>,
      <<".", "v", "i", "e", "w", ".", "t", "s">>, <<".", "v", "i", "e", "w", ".", "t", "s", "x">> }

\* "/" + data.relativePath.replace(/\.view\.[jt]sx?$/, "")
CollectionPath(relativePath) ==
    LET matches == {x \in ViewSuffixes :
                       /\ Len(x) <= Len(relativePath)
                       /\ SubSeq(relativePath, Len(relativePath) - Len(x) + 1, Len(relativePath)) = x}
    IN  <<"/">> \o (IF matches = {} THEN relativePath
                    ELSE LET x == CHOOSE y \in matches : \A z \in matches : Len(z) <= Len(y)
                         IN  SubSeq(relativePath, 1, Len(relativePath) - Len(x)))

AtDefault == <<"@", "d", "e", "f", "a", "u", "l", "t">>

\* The names pushed on fns: one per key of an exported object, "@default"
\* for an exported function.
FnNames(exports, key) ==
    IF exports = "object" THEN <<SentenceCase(key)>>
    ELSE <<[threw |-> FALSE, result |-> AtDefault]>>

\* helpers.name
HelpersName(name) == SentenceCase(name)

\* collection.views.push({ ..., path, name, ... })
ViewEntry(path, name) ==
    [ name |-> name,
      path |-> IF name = AtDefault THEN path ELSE JoinPath(<<path, SlugCase(name).result>>, 1) ]

\* formatCollection(data) for a file that exports the function fn, an object
\* with the function under one key, or something else. returns is what the
\* function gives back: a template or nothing.
FormatCollection(exports, key, returns) ==
    LET path == CollectionPath(RelativePath)
        failed == [threw |-> TRUE, collection |-> [path |-> path, views |-> <<>>]]
    IN  IF exports \notin {"object", "function"} THEN failed
        ELSE LET fns == FnNames(exports, key) IN
             IF fns[1].threw THEN failed
             ELSE LET name == HelpersName(fns[1].result) IN
                  IF name.threw \/ returns # "template" THEN failed
                  ELSE [threw |-> FALSE,
                        collection |-> [path |-> path,
                                        views |-> <<ViewEntry(path, name.result)>>]]

\* (views) => views.length > 1 || views[0].name !== "@default"
HasManyViews(views) == Len(views) > 1 \/ views[1].name # AtDefault

formatCollection(exports, returns) ==
    /\ label.op # "formatCollection" \/ label.exports # exports
    /\ LET formatted == FormatCollection(exports, label.input, returns) IN
       label' = [label EXCEPT !.op = "formatCollection",
                              !.exports = exports,
                              !.threw = formatted.threw,
                              !.result = <<>>,
                              !.collection = formatted.collection]

\* The other subsystems are idle in the specification of the names.
LabelOnly ==
    UNCHANGED <<view, router, map, rebuild, spring, store, scope, nav, cell, dialog, bundle, service, collector, motion, outlet>>

LabelStart == LabelInit /\ view = Off /\ router = Off /\ map = Off /\ rebuild = Off
    /\ spring = Off /\ store = Off /\ scope = Off /\ nav = Off /\ cell = Off /\ dialog = Off
    /\ bundle = Off /\ service = Off /\ collector = Off /\ motion = Off /\ outlet = Off

LabelNext ==
    \/ sentenceCase /\ LabelOnly
    \/ slugCase /\ LabelOnly
    \/ \E exports \in {"function", "object", "string"}, returns \in {"template", "nothing"} :
          formatCollection(exports, returns) /\ LabelOnly

SpecLabel == LabelStart /\ [][LabelNext]_vars

\* The places where an identifier is to be split: between a lowercase letter
\* or a digit and an uppercase letter, and between an uppercase letter and an
\* uppercase letter that a lowercase letter follows.
Boundaries(input) ==
    {i \in 1..(Len(input) - 1) :
        \/ (IsLower(input[i]) \/ input[i] \in Digits) /\ IsUpper(input[i + 1])
        \/ /\ IsUpper(input[i]) /\ IsUpper(input[i + 1])
           /\ i + 2 <= Len(input) /\ IsLower(input[i + 2])}

\* C30: slugCase puts one hyphen at every such place of an identifier of
\* letters and digits; "myViewName" becomes "My view name" and
\* "my-view-name", and "HTTPRequestExample" becomes "HTTP request example"
\* and "http-request-example".
CaseSplitsIdentifiers ==
    /\ (label.op = "slugCase" /\ \A i \in 1..Len(label.input) : IsWordCharacter(label.input[i])) =>
          Cardinality({i \in 1..Len(label.result) : label.result[i] = "-"})
              = Cardinality(Boundaries(label.input))
    /\ (label.op = "sentenceCase" /\ label.input = MyViewName) =>
          label.result = 
              <<"M", "y", " ", "v", "i", "e", "w", " ", "n", "a", "m", "e">>
    /\ (label.op = "slugCase" /\ label.input = MyViewName) =>
          label.result = 
              <<"m", "y", "-", "v", "i", "e", "w", "-", "n", "a", "m", "e">>
    /\ (label.op = "sentenceCase" /\ label.input = HTTPRequestExample) =>
          label.result = 
              <<"H", "T", "T", "P", " ", "r", "e", "q", "u", "e", "s", "t", " ", "e",
                "x", "a", "m", "p", "l", "e">>
    /\ (label.op = "slugCase" /\ label.input = HTTPRequestExample) =>
          label.result = 
              <<"h", "t", "t", "p", "-", "r", "e", "q", "u", "e", "s", "t", "-", "e",
                "x", "a", "m", "p", "l", "e">>

\* C31: for a file that exports one function, whose call gives a template,
\* formatCollection answers one view named "@default" with the path of the
\* collection, and the navigation panel does not count the collection as
\* having many views.
FormatCollectionDefaultView ==
    (label.op = "formatCollection" /\ label.exports = "function" /\ ~label.threw) =>
        /\ Len(label.collection.views) = 1
        /\ label.collection.views[1].name = AtDefault
        /\ label.collection.views[1].path = label.collection.path
        /\ ~HasManyViews(label.collection.views)

-----------------------------------------------------------------------------
\* spring(): the default spring animated from 0 to 1 (src/unnamed/part_007).
\* Numbers are fixed-point integers: Scale stands for 1, times are milliseconds.

MaxElapsed == 3000

Scale == 10000

Mass == 2

Stiffness == 1200

Damping == 160

Velocity == 5

EndWindow == 20

\* endAmplitude = 0.001
EndAmplitude == Scale \div 1000

\* A frame comes one display refresh after the last, or after the page was
\* hidden for a while (requestAnimationFrame is paused in a hidden page).
FrameTimes == {16, 2000}

RECURSIVE SqrtBetween(_, _, _)
SqrtBetween(n, lo, hi) ==
    IF lo >= hi THEN lo
    ELSE LET mid == (lo + hi + 1) \div 2
         IN  IF mid * mid <= n THEN SqrtBetween(n, mid, hi) ELSE SqrtBetween(n, lo, mid - 1)

\* Math.sqrt(n), rounded down
Sqrt(n) == SqrtBetween(n, 0, 46340)

\* dampingRatio < 1, with dampingRatio = damping / (2 * Math.sqrt(stiffness * mass))
Underdamped == Damping * Damping < 4 * Stiffness * Mass

\* speed = Math.sqrt(stiffness / mass), in thousandths
Speed == Sqrt((Stiffness * 1000000) \div Mass)

RECURSIVE ExpTerms(_, _, _)
ExpTerms(x, term, k) ==
    IF term = 0 \/ k > 12 THEN 0
    ELSE term + ExpTerms(x, (0 - (term * x)) \div (Scale * k), k + 1)

RECURSIVE ExpWhole(_)
ExpWhole(n) == IF n = 0 THEN Scale ELSE (ExpWhole(n - 1) * ExpTerms(Scale, Scale, 1)) \div Scale

\* Math.exp(-x) for x in millionths
ExpNeg(x) ==
    LET whole == x \div 1000000
        part  == (x % 1000000) \div (1000000 \div Scale)
    IN  IF whole > 12 THEN 0 ELSE (ExpWhole(whole) * ExpTerms(part, Scale, 1)) \div Scale

\* solve(t) of makeSpringSolver for t in milliseconds; the default parameters
\* take the branch of dampingRatio >= 1
Solve(t) ==
    LET B        == Speed - Velocity * 1000
        position == ((Scale + (B * t) \div (1000000 \div Scale)) * ExpNeg(Speed * t)) \div Scale
    IN  Scale - position

RECURSIVE Extreme(_, _)
Extreme(samples, greatest) ==
    IF Len(samples) = 1 THEN samples[1]
    ELSE LET rest == Extreme(Tail(samples), greatest)
         IN  IF greatest = (samples[1] > rest) THEN samples[1] ELSE rest

\* amplitude.sample(value)
Sample(samples, value) ==
    LET pushed == Append(samples, value)
    IN  IF Len(pushed) > EndWindow THEN Tail(pushed) ELSE pushed

\* amplitude.value: <<>> is null
AmplitudeValue(samples) ==
    IF Len(samples) < EndWindow THEN <<>>
    ELSE <<Extreme(samples, TRUE) - Extreme(samples, FALSE)>>

\* amplitude.value && amplitude.value < _endAmplitude
Ended(value) == value # <<>> /\ value[1] # 0 /\ value[1] < EndAmplitude

MotionInit ==
    motion = [currentValue |-> 0, animating |-> FALSE, frame |-> FALSE, elapsed |-> 0,
              samples |-> <<>>, resolved |-> FALSE, op |-> "none"]

\* animateTo(1) on spring(0): the step is requested for the next frame
motionAnimateTo ==
    /\ motion.op = "none"
    /\ motion' = [motion EXCEPT !.animating = TRUE, !.frame = TRUE, !.op = "animateTo"]

\* A frame runs step, dt milliseconds after the frame before it.
motionStep(dt) ==
    /\ motion.frame
    /\ motion.elapsed + dt <= MaxElapsed
    /\ IF ~motion.animating
       THEN motion' = [motion EXCEPT !.resolved = TRUE, !.frame = FALSE, !.op = "resolve",
                                     !.elapsed = @ + dt]
       ELSE LET elapsedTime == motion.elapsed + dt
                proportion  == Solve(elapsedTime)
                samples     == Sample(motion.samples, proportion)
                ended       == Ended(AmplitudeValue(samples))
            IN  motion' = [motion EXCEPT
                    !.elapsed = elapsedTime,
                    !.samples = samples,
                    !.currentValue = IF ended THEN Scale ELSE (Scale * proportion) \div Scale,
                    !.animating = ~ended,
                    !.frame = TRUE,
                    !.op = "step"]

MotionOnly == UNCHANGED <<view, router, map, rebuild, spring, store, scope, nav, cell, dialog, bundle, service, collector, label, outlet>>

MotionStart == MotionInit /\ view = Off /\ router = Off /\ map = Off /\ rebuild = Off /\ spring = Off /\ store = Off
    /\ scope = Off /\ nav = Off /\ cell = Off /\ dialog = Off /\ bundle = Off /\ service = Off
    /\ collector = Off /\ label = Off /\ outlet = Off

MotionNext ==
    \/ motionAnimateTo /\ MotionOnly
    \/ \E dt \in FrameTimes : motionStep(dt) /\ MotionOnly

SpecMotion == MotionStart /\ [][MotionNext]_vars

\* The amplitude of the last EndWindow proportions, once that many were sampled
MotionAmplitude == AmplitudeValue(motion.samples)

\* C32: once the last 20 proportions of the default spring animated from 0 to 1
\* differ by less than 0.001, the step of that frame sets the value to exactly 1
\* and ends the animation, so that the frame after it resolves the promise and
\* requests no further frame.
SpringSettlesAndStops ==
    (motion.op = "step" /\ MotionAmplitude # <<>> /\ MotionAmplitude[1] < EndAmplitude) =>
        /\ motion.currentValue = Scale
        /\ ~motion.animating

(***************************************************************************)
(* The nested router outlet: matchRoute and routePreload                   *)
(* src/packages/client/src/elements/text.ts, lines 500-622                 *)
(* src/packages/client/lib/makers/initView.js, lines 245-269               *)
(***************************************************************************)
\* Most calls of matchRoute in one run.
MaxMatches == 3

\* The routes of the outlet (none redirects).
OutletRoutes == {"/a", "/b"}

\* $route.route after a path that matched no route
NoRoute == "null"

OutletInit ==
    outlet = [route |-> NoRoute, mounted |-> <<>>, pending |-> <<>>, created |-> 0,
              last |-> [op |-> "init", route |-> NoRoute]]

\* const mount = (component) => { ... }: the mounted component is
\* disconnected and the given one is connected in its place.
Mount(component) == <<component>>

\* matchRoute(path) up to its await: $route is set at once; a route that was
\* not the active one, or any route while nothing is mounted, creates its
\* component, which is mounted now (no routePreload) or when its preload
\* settles.
matchRoute(route, hasRoutePreload) ==
    /\ outlet.created < MaxMatches
    /\ LET routeChanged == route # outlet.route \/ outlet.mounted = <<>>
           created == [route |-> route, id |-> outlet.created + 1, element |-> FALSE]
       IN  outlet' = [outlet EXCEPT
               !.route = route,
               !.created = IF routeChanged THEN @ + 1 ELSE @,
               !.pending = IF routeChanged /\ hasRoutePreload THEN Append(@, created) ELSE @,
               !.mounted = IF routeChanged /\ ~hasRoutePreload THEN Mount(created) ELSE @,
               !.last = [op |-> "matchRoute", route |-> route]]

\* matchRoute(path) for a path that matches no route
matchNothing ==
    outlet' = [outlet EXCEPT !.route = NoRoute, !.mounted = <<>>,
                             !.last = [op |-> "matchNothing", route |-> NoRoute]]

\* show(element) called by a pending preload function: the element is mounted.
show(k) ==
    /\ k \in 1..Len(outlet.pending)
    /\ ~ (outlet.mounted # <<>> /\ outlet.mounted[1] = [outlet.pending[k] EXCEPT !.element = TRUE])
    /\ outlet' = [outlet EXCEPT
           !.mounted = Mount([outlet.pending[k] EXCEPT !.element = TRUE]),
           !.last = [op |-> "show", route |-> outlet.pending[k].route]]

\* done(), or the promise the preload function returned resolves: the
\* matchRoute call that awaited it goes on.
preloadSettles(k) ==
    /\ k \in 1..Len(outlet.pending)
    /\ LET call == outlet.pending[k]
       IN  outlet' = [outlet EXCEPT
               !.pending = SubSeq(@, 1, k - 1) \o SubSeq(@, k + 1, Len(@)),
               !.mounted = Mount(call),
               !.last = [op |-> "preloadSettles", route |-> call.route]]

OutletOnly == UNCHANGED <<view, router, map, rebuild, spring, store, scope, nav, cell, dialog, bundle, service, collector, label, motion>>

OutletStart == OutletInit /\ view = Off /\ router = Off /\ map = Off /\ rebuild = Off /\ spring = Off
    /\ store = Off /\ scope = Off /\ nav = Off /\ cell = Off /\ dialog = Off /\ bundle = Off
    /\ service = Off /\ collector = Off /\ label = Off /\ motion = Off

OutletNext ==
    \/ \E route \in OutletRoutes, hasRoutePreload \in BOOLEAN :
          matchRoute(route, hasRoutePreload) /\ OutletOnly
    \/ matchNothing /\ OutletOnly
    \/ \E k \in 1..MaxMatches : show(k) /\ OutletOnly
    \/ \E k \in 1..MaxMatches : preloadSettles(k) /\ OutletOnly

SpecOutlet == OutletStart /\ [][OutletNext]_vars

\* C34: when every routePreload has settled, the mounted component is the
\* one of the route matched last, the route $route holds: a match made while
\* an earlier preload was pending is not overridden when that preload settles.
OutletMountsLatestMatch ==
    (outlet.pending = <<>> /\ outlet.last.op = "preloadSettles") =>
        IF outlet.route = NoRoute THEN outlet.mounted = <<>>
        ELSE outlet.mounted # <<>> /\ outlet.mounted[1].route = outlet.route

=============================================================================
